---- MODULE Spec2Model ----
(***************************************************************************)
(* Model of the tracking scheduler of xtrack (src/xtrack/tracker.py):      *)
(* the lattice partitioner, the range planner, the turn/part dispatcher    *)
(* with its hold/resume sessions, and the bulk kernel's bookkeeping.       *)
(*                                                                         *)
(* Python's None is the value None (-1): every index the code stores is    *)
(* >= 0.  Python lists are 0-based; At(s, i) reads element i of a list.    *)
(***************************************************************************)
EXTENDS Integers, Sequences, FiniteSets, TLC

\* ------------------------------------------------------------------ bounds
MaxElems == 3        \* longest lattice of the tracking specifications
MaxSplitLen == 4     \* longest element sequence given to the partitioner
MaxTurns == 2        \* largest num_turns argument
MaxExtraElems == 2   \* num_elements ranges over 0 .. num_elements-of-line + this
MaxHolds == 2        \* hold signals the collective elements give in one run
MaxCalls == 2
MaxInterval == 2
MaxKernels == 2
MaxWindow == 4
MaxSlots == 3        \* track() calls in one behaviour
NumParticles == 2    \* particle slots of the buffer

None == -1

At(s, i) == s[i + 1]
Last(s) == s[Len(s)]

\* ------------------------------------------------- the lattice partitioner

\* An element's `iscollective` attribute: it may be missing.
IsCollAttr == {"absent", "True", "False"}

\* tracker.py:34  not hasattr(ele, 'iscollective') or ele.iscollective
check_is_collective(ee) == ee.iscollective = "absent" \/ ee.iscollective = "True"

\* An element of a line, and the Drift that stands for a collective element in
\* the all-bulk lattice (aperture: the element loses the wide particles;
\* needs_cpu: the element works on a buffer of the CPU context only;
\* needs_hidden_lost_particles: it works on a buffer whose lost particles are
\* hidden;
\* backtrackable: the element has a map for tracking backwards).
Element(attr, aperture) ==
    [iscollective |-> attr, aperture |-> aperture, needs_cpu |-> FALSE,
     needs_hidden_lost_particles |-> FALSE, backtrackable |-> TRUE]
Drift == Element("False", FALSE)

\* A part: a TrackerPartNonCollective (its element range) or the collective
\* element itself (elem is the element's index in the line).
NonCollectivePart(first, stop) ==
    [iscoll |-> FALSE, ele_start_in_tracker |-> first,
     ele_stop_in_tracker |-> stop, elem |-> None, elements |-> <<>>]
CollectivePart(idx) ==
    [iscoll |-> TRUE, ele_start_in_tracker |-> None,
     ele_stop_in_tracker |-> None, elem |-> idx, elements |-> <<>>]
\* A non-collective part before lines 209-217 replace it: a Line of elements.
LinePart(elements) ==
    [iscoll |-> FALSE, ele_start_in_tracker |-> None,
     ele_stop_in_tracker |-> None, elem |-> None, elements |-> elements]

\* defaultdict(list): _part_element_index[i].append(idx)
DictAppend(d, i, idx) ==
    IF i \in DOMAIN d THEN [d EXCEPT ![i] = Append(@, idx)]
    ELSE d @@ (i :> <<idx>>)

\* Locals of _split_parts_for_collective_mode before the loop (lines 160-168).
SplitStart(elements) ==
    [elements |-> elements, pc |-> "loop", idx |-> 0,
     parts |-> <<>>, element_part |-> <<>>, element_index_in_part |-> <<>>,
     part_element_index |-> <<>>, this_part |-> <<>>,
     ii_in_part |-> 0, i_part |-> 0, noncollective_xelements |-> <<>>]

\* Lines 177-180: a pending non-collective part is appended when not empty.
Flushed(s) ==
    IF Len(s.this_part) > 0
    THEN [s EXCEPT !.parts = Append(@, LinePart(s.this_part)),
                   !.i_part = @ + 1]
    ELSE s

\* The loop body without the reset of ii_in_part (line 188).
SplitIterNoReset(s) ==
    LET ee == At(s.elements, s.idx) IN
    IF ~check_is_collective(ee)
    THEN [s EXCEPT !.this_part = Append(@, ee),
                   !.element_part = Append(@, s.i_part),
                   !.element_index_in_part = Append(@, s.ii_in_part),
                   !.ii_in_part = @ + 1,
                   !.part_element_index = DictAppend(@, s.i_part, s.idx),
                   !.idx = @ + 1]
    ELSE LET f == Flushed(s) IN
         [f EXCEPT !.parts = Append(@, CollectivePart(s.idx)),
                   !.element_part = Append(@, f.i_part),
                   !.element_index_in_part = Append(@, None),
                   !.part_element_index = DictAppend(@, f.i_part, s.idx),
                   !.i_part = @ + 1,
                   !.this_part = <<>>,
                   !.idx = @ + 1]

\* One iteration of the loop over the elements (lines 169-189).
SplitIter(s) ==
    LET ee == At(s.elements, s.idx) IN
    IF ~check_is_collective(ee)
    THEN [s EXCEPT !.this_part = Append(@, ee),
                   !.element_part = Append(@, s.i_part),
                   !.element_index_in_part = Append(@, s.ii_in_part),
                   !.ii_in_part = @ + 1,
                   !.part_element_index = DictAppend(@, s.i_part, s.idx),
                   !.idx = @ + 1]
    ELSE LET f == Flushed(s) IN
         [f EXCEPT !.parts = Append(@, CollectivePart(s.idx)),
                   !.element_part = Append(@, f.i_part),
                   !.element_index_in_part = Append(@, None),
                   !.part_element_index = DictAppend(@, f.i_part, s.idx),
                   !.i_part = @ + 1,
                   !.this_part = <<>>,
                   !.ii_in_part = 0,
                   !.idx = @ + 1]

\* Lines 209-217: every Line part becomes a TrackerPartNonCollective.
BuildPart(s, ii) ==
    LET pp == At(s.parts, ii) IN
    IF pp.iscoll THEN pp
    ELSE NonCollectivePart(s.part_element_index[ii][1],
                           Last(s.part_element_index[ii]) + 1)

\* Lines 194-206: the all-bulk lattice, a Drift for every collective part.
RECURSIVE Placeholders(_, _)
Placeholders(parts, ii) ==
    IF ii > Len(parts) THEN <<>>
    ELSE (IF parts[ii].iscoll THEN <<Drift>> ELSE parts[ii].elements)
         \o Placeholders(parts, ii + 1)

\* The tail without the append of the trailing part (lines 190-192).
SplitTailNoFlush(s) ==
    [s EXCEPT !.pc = "done",
              !.noncollective_xelements = Placeholders(s.parts, 1),
              !.parts = [ii \in 1..Len(s.parts) |-> BuildPart(s, ii - 1)]]

\* After the loop (lines 190-217): the trailing part, the all-bulk lattice,
\* then the part objects.
SplitTail(s) ==
    LET f == IF Len(s.this_part) > 0
             THEN [s EXCEPT !.parts = Append(@, LinePart(s.this_part))]
             ELSE s
    IN [f EXCEPT !.pc = "done",
                 !.noncollective_xelements = Placeholders(f.parts, 1),
                 !.parts = [ii \in 1..Len(f.parts) |-> BuildPart(f, ii - 1)]]

RECURSIVE SplitLoop(_)
SplitLoop(s) ==
    IF s.idx < Len(s.elements) THEN SplitLoop(SplitIter(s)) ELSE SplitTail(s)

split_parts_for_collective_mode(elements) == SplitLoop(SplitStart(elements))

\* ------------------------------------------------------ the bulk kernel

\* An entry of the log of dispatched work: an element of the line that a
\* kernel call or a collective step has covered, or the end-of-turn actions.
ElementStep(e) == [ev |-> "element", idx |-> e]
EndTurn == [ev |-> "end_turn", idx |-> None]
EndTurnBacktrack == [ev |-> "end_turn_backtrack", idx |-> None]

\* Particles_to_LocalParticle / LocalParticle_to_Particles (lines 404, 510)
LocalParticle(particles, i) ==
    [state |-> particles.state[i], at_turn |-> particles.at_turn[i],
     at_element |-> particles.at_element[i], wide |-> particles.wide[i]]

check_is_active(lpart) == lpart.state > 0

increment_at_element(lpart, k) == [lpart EXCEPT !.at_element = @ + k]

increment_at_turn(lpart) ==
    [lpart EXCEPT !.at_turn = @ + 1, !.at_element = 0]

\* The physics of one element on one particle, as far as the scheduler sees
\* it: an element with an aperture marks a wide particle as lost (state 0).
element_track_local_particle(el, lpart) ==
    IF el.aperture /\ lpart.wide THEN [lpart EXCEPT !.state = 0] ELSE lpart

\* The loop over the elements of one kernel turn (lines 431-487).
RECURSIVE kernel_elements(_, _, _, _)
kernel_elements(elements, lpart, elem_idx, ele_stop) ==
    IF ~(elem_idx < ele_stop) THEN lpart
    ELSE LET lp == element_track_local_particle(At(elements, elem_idx), lpart) IN
         IF ~check_is_active(lp) THEN lp
         ELSE kernel_elements(elements, increment_at_element(lp, 1),
                              elem_idx + 1, ele_stop)

\* A turn of the kernel that never runs increment_at_turn.
kernel_turn_no_eot(elements, lpart, ele_start, num_ele_track, flag_end_turn_actions) ==
    IF ~check_is_active(lpart) THEN lpart
    ELSE kernel_elements(elements, lpart, ele_start, ele_start + num_ele_track)

\* A turn of the kernel whose end-of-turn actions do not test isactive.
kernel_turn_increments_lost(elements, lpart, ele_start, num_ele_track, flag_end_turn_actions) ==
    IF ~check_is_active(lpart) THEN lpart
    ELSE LET lp == kernel_elements(elements, lpart, ele_start,
                                   ele_start + num_ele_track) IN
         IF flag_end_turn_actions THEN increment_at_turn(lp) ELSE lp

\* One turn of the kernel for one particle (lines 408-508, forward tracking).
kernel_turn(elements, lpart, ele_start, num_ele_track, flag_end_turn_actions) ==
    IF ~check_is_active(lpart) THEN lpart
    ELSE LET lp == kernel_elements(elements, lpart, ele_start,
                                   ele_start + num_ele_track) IN
         IF flag_end_turn_actions /\ check_is_active(lp)
         THEN increment_at_turn(lp) ELSE lp

\* The kernel built with XSUITE_BACKTRACK: at the head of a turn at_turn - 1
\* and at_element to the end of the line.
increment_at_turn_backtrack(lpart, num_ele_line) ==
    [lpart EXCEPT !.at_turn = @ - 1, !.at_element = num_ele_line]

\* The loop over the elements with increm = -1 (lines 421-487).
RECURSIVE kernel_elements_backtrack(_, _, _, _, _)
kernel_elements_backtrack(elements, lpart, elem_idx, ele_start, ele_stop) ==
    IF ~(elem_idx >= ele_start /\ elem_idx < ele_stop) THEN lpart
    ELSE LET lp == element_track_local_particle(At(elements, elem_idx), lpart) IN
         IF ~check_is_active(lp) THEN lp
         ELSE kernel_elements_backtrack(elements, increment_at_element(lp, -1),
                                        elem_idx - 1, ele_start, ele_stop)

\* A backward turn that leaves the turn counter alone.
kernel_turn_backtrack_keeps_turn(elements, lpart, ele_start, num_ele_track, flag_end_turn_actions) ==
    IF ~check_is_active(lpart) THEN lpart
    ELSE LET ele_stop == ele_start + num_ele_track
             lp == IF flag_end_turn_actions
                   THEN [lpart EXCEPT !.at_element = Len(elements)]
                   ELSE lpart
         IN kernel_elements_backtrack(elements, lp, ele_stop - 1, ele_start,
                                      ele_stop)

\* One turn of the kernel built with XSUITE_BACKTRACK (lines 408-508).
kernel_turn_backtrack(elements, lpart, ele_start, num_ele_track, flag_end_turn_actions) ==
    IF ~check_is_active(lpart) THEN lpart
    ELSE LET ele_stop == ele_start + num_ele_track
             lp == IF flag_end_turn_actions
                   THEN increment_at_turn_backtrack(lpart, Len(elements))
                   ELSE lpart
         IN kernel_elements_backtrack(elements, lp, ele_stop - 1, ele_start,
                                      ele_stop)

\* What the monitor stores of one particle; <<>> for a particle not sampled.
Sample(lpart) == <<lpart.at_turn, lpart.at_element>>
MonitorRecord(particles) ==
    [i \in 1..Len(particles.state) |->
        IF check_is_active(LocalParticle(particles, i))
        THEN Sample(LocalParticle(particles, i)) ELSE <<>>]

\* flag_monitor == 2 (lines 432-434): the record taken when the loop over the
\* elements stands at element upto, of the particles that have come so far.
EbeRecord(elements, particles, ele_start, upto) ==
    [i \in 1..Len(particles.state) |->
        LET lp0 == LocalParticle(particles, i)
            lp == kernel_elements(elements, lp0, ele_start, upto)
        IN IF check_is_active(lp0) /\ check_is_active(lp)
           THEN Sample(lp) ELSE <<>>]

\* flag_monitor == 2 (lines 489-492): the record after the loop over the
\* elements, of every particle that began the turn.
EbeEndRecord(elements, particles, ele_start, ele_stop) ==
    [i \in 1..Len(particles.state) |->
        LET lp0 == LocalParticle(particles, i) IN
        IF check_is_active(lp0)
        THEN Sample(kernel_elements(elements, lp0, ele_start, ele_stop))
        ELSE <<>>]

\* The records of one forward turn of the kernel (lines 416-419, 432-434,
\* 489-492).
turn_samples(elements, particles, ele_start, num_ele_track, flag_monitor) ==
    IF flag_monitor = 1 THEN <<MonitorRecord(particles)>>
    ELSE IF flag_monitor = 2
    THEN [j \in 1..((IF num_ele_track > 0 THEN num_ele_track ELSE 0) + 1) |->
            IF j <= num_ele_track
            THEN EbeRecord(elements, particles, ele_start, ele_start + j - 1)
            ELSE EbeEndRecord(elements, particles, ele_start,
                              ele_start + num_ele_track)]
    ELSE <<>>

\* The same for the kernel built with XSUITE_BACKTRACK: the records before
\* the elements ele_stop-1 down to ele_start and the one after the loop
\* (flag_monitor == 2), or the one at the end of the turn (lines 503-507).
turn_samples_backtrack(elements, particles, ele_start, num_ele_track, flag_end_turn_actions, flag_monitor) ==
    LET ele_stop == ele_start + num_ele_track
        head(i) == IF flag_end_turn_actions
                   THEN increment_at_turn_backtrack(LocalParticle(particles, i),
                                                    Len(elements))
                   ELSE LocalParticle(particles, i)
        at(i, downto) == kernel_elements_backtrack(elements, head(i),
                                                   ele_stop - 1, downto, ele_stop)
        began(i) == check_is_active(LocalParticle(particles, i))
    IN IF flag_monitor = 1
       THEN << [i \in 1..Len(particles.state) |->
                  IF check_is_active(at(i, ele_start))
                  THEN Sample(at(i, ele_start)) ELSE <<>>] >>
       ELSE IF flag_monitor = 2
       THEN [j \in 1..((IF num_ele_track > 0 THEN num_ele_track ELSE 0) + 1) |->
               [i \in 1..Len(particles.state) |->
                  IF j <= num_ele_track
                  THEN IF began(i) /\ check_is_active(at(i, ele_stop - j + 1))
                       THEN Sample(at(i, ele_stop - j + 1)) ELSE <<>>
                  ELSE IF began(i) THEN Sample(at(i, ele_start)) ELSE <<>>]]
       ELSE <<>>

StoreLocal(particles, lp) ==
    [particles EXCEPT
        !.state = [i \in 1..Len(lp) |-> lp[i].state],
        !.at_turn = [i \in 1..Len(lp) |-> lp[i].at_turn],
        !.at_element = [i \in 1..Len(lp) |-> lp[i].at_element]]

Range(a, b) == [k \in 1..(IF b > a THEN b - a ELSE 0) |-> ElementStep(a + k - 1)]
RangeBacktrack(a, b) ==
    [k \in 1..(IF b > a THEN b - a ELSE 0) |-> ElementStep(b - k)]

\* track_line (lines 364-525): num_turns turns over elements
\* ele_start .. ele_start+num_ele_track-1 for every particle.  The particles
\* are independent, so the turns are taken for the whole ensemble at once.
\* k is a record [particles, trace, samples].
RECURSIVE track_line(_, _, _, _, _, _, _)
track_line(elements, k, num_turns, ele_start, num_ele_track, flag_end_turn_actions, flag_monitor) ==
    IF num_turns <= 0 THEN k
    ELSE LET lp == [i \in 1..Len(k.particles.state) |->
                      kernel_turn(elements, LocalParticle(k.particles, i),
                                  ele_start, num_ele_track,
                                  flag_end_turn_actions)]
             k1 == [particles |-> StoreLocal(k.particles, lp),
                    trace |-> k.trace \o Range(ele_start, ele_start + num_ele_track)
                              \o (IF flag_end_turn_actions THEN <<EndTurn>> ELSE <<>>),
                    samples |-> k.samples
                                \o turn_samples(elements, k.particles, ele_start,
                                                num_ele_track, flag_monitor)]
         IN track_line(elements, k1, num_turns - 1, ele_start, num_ele_track,
                       flag_end_turn_actions, flag_monitor)

\* track_line built with XSUITE_BACKTRACK: the end-of-turn actions come first,
\* the elements in descending order, the monitor record last.
RECURSIVE track_line_backtrack(_, _, _, _, _, _, _)
track_line_backtrack(elements, k, num_turns, ele_start, num_ele_track, flag_end_turn_actions, flag_monitor) ==
    IF num_turns <= 0 THEN k
    ELSE LET lp == [i \in 1..Len(k.particles.state) |->
                      kernel_turn_backtrack(elements, LocalParticle(k.particles, i),
                                            ele_start, num_ele_track,
                                            flag_end_turn_actions)]
             p1 == StoreLocal(k.particles, lp)
             k1 == [particles |-> p1,
                    trace |-> k.trace
                              \o (IF flag_end_turn_actions
                                  THEN <<EndTurnBacktrack>> ELSE <<>>)
                              \o RangeBacktrack(ele_start, ele_start + num_ele_track),
                    samples |-> k.samples
                                \o turn_samples_backtrack(
                                       elements, k.particles, ele_start,
                                       num_ele_track, flag_end_turn_actions,
                                       flag_monitor)]
         IN track_line_backtrack(elements, k1, num_turns - 1, ele_start,
                                 num_ele_track, flag_end_turn_actions,
                                 flag_monitor)

\* get_track_kernel_and_data_for_present_config (line 1111): the kernel of
\* the present config.
track_kernel(tr, k, num_turns, ele_start, num_ele_track, flag_end_turn_actions, flag_monitor) ==
    IF tr.XSUITE_BACKTRACK
    THEN track_line_backtrack(tr.tracker_data_elements, k, num_turns, ele_start,
                              num_ele_track, flag_end_turn_actions, flag_monitor)
    ELSE track_line(tr.tracker_data_elements, k, num_turns, ele_start,
                    num_ele_track, flag_end_turn_actions, flag_monitor)

\* --------------------------------------------- tracking without collective

\* np.divmod for non-negative integers; numpy gives 0 for a division by 0.
DivMod(a, b) == IF b = 0 THEN <<0, 0>> ELSE <<a \div b, a % b>>

\* The arguments of a track call.
Args(ele_start, ele_stop, num_elements, num_turns, turn_by_turn_monitor) ==
    [ele_start |-> ele_start, ele_stop |-> ele_stop,
     num_elements |-> num_elements, num_turns |-> num_turns,
     turn_by_turn_monitor |-> turn_by_turn_monitor]

\* A monitor: a window of turns from 0 to stop_at_turn, one slot of records
\* for each; data holds the records written, overflow tells that a record was
\* asked for when no slot was left.
NoMonitor ==
    [stop_at_turn |-> None, ebe_mode |-> 0, overflow |-> FALSE, data |-> <<>>]
ParticlesMonitor(stop_at_turn, ebe_mode) ==
    [stop_at_turn |-> stop_at_turn, ebe_mode |-> ebe_mode, overflow |-> FALSE,
     data |-> <<>>]

\* The monitor objects a caller may hand to track: "Monitor1" and "Monitor2"
\* with a window of one and two turns, "MonitorEbe" with ebe_mode = 1.
MonitorObjects == {"Monitor1", "Monitor2", "MonitorEbe"}
monitor_object(name) ==
    IF name = "Monitor1" THEN ParticlesMonitor(1, 0)
    ELSE IF name = "Monitor2" THEN ParticlesMonitor(2, 0)
    ELSE ParticlesMonitor(2, 1)

\* _get_monitor (lines 1186-1221); num_elements is
\* len(self.line.element_names).
get_monitor(num_elements, turn_by_turn_monitor, num_turns) ==
    IF turn_by_turn_monitor = "None"
    THEN [flag_monitor |-> 0, monitor |-> NoMonitor]
    ELSE IF turn_by_turn_monitor = "True"
    THEN [flag_monitor |-> 1, monitor |-> ParticlesMonitor(num_turns, 0)]
    ELSE IF turn_by_turn_monitor = "ONE_TURN_EBE"
    THEN [flag_monitor |-> 2, monitor |-> ParticlesMonitor(num_elements + 1, 1)]
    ELSE LET mon == monitor_object(turn_by_turn_monitor) IN
         [flag_monitor |-> IF mon.ebe_mode = 1 THEN 2 ELSE 1, monitor |-> mon]

\* _monitor_init (monitors.py, lines 6-18): the monitor data it initializes,
\* n_records records for each per-particle variable.
monitor_init(start_at_turn, stop_at_turn, num_particles) ==
    LET n_turns == stop_at_turn - stop_at_turn
        n_records == n_turns * num_particles
    IN [start_at_turn |-> start_at_turn, stop_at_turn |-> stop_at_turn,
        n_records |-> n_records]

\* The records the kernel has asked the monitor to take, one after the other:
\* they fill its slots; a record asked for when none is left is not in data.
recorded(monitor, samples) ==
    IF monitor.stop_at_turn = None THEN monitor
    ELSE IF Len(samples) > monitor.stop_at_turn - Len(monitor.data)
    THEN [monitor EXCEPT
            !.data = @ \o SubSeq(samples, 1, monitor.stop_at_turn - Len(@)),
            !.overflow = TRUE]
    ELSE [monitor EXCEPT !.data = @ \o samples]

\* The split of a request into first, middle and last turn (lines 1038-1087).
\* ele_start is already an index.
Plan(first, middle, last) ==
    [err |-> "", num_elements_first_turn |-> first,
     num_middle_turns |-> middle, num_elements_last_turn |-> last]
PlanError(e) ==
    [err |-> e, num_elements_first_turn |-> 0,
     num_middle_turns |-> 0, num_elements_last_turn |-> 0]

\* The num_elements branch without num_middle_turns -= 1 (line 1057).
plan_num_elements_keep_middle(N, ele_start, num_elements) ==
    IF num_elements + ele_start <= N THEN Plan(num_elements, 0, 0)
    ELSE LET dm == DivMod(ele_start + num_elements, N) IN
         Plan(N - ele_start, dm[1], dm[2])

\* Lines 1048-1057: the request by a number of elements.
plan_num_elements(N, ele_start, num_elements) ==
    IF num_elements + ele_start <= N THEN Plan(num_elements, 0, 0)
    ELSE LET dm == DivMod(ele_start + num_elements, N) IN
         Plan(N - ele_start, dm[1] - 1, dm[2])

\* The ele_stop branch that adds a turn only for ele_stop < ele_start.
plan_ele_stop_strict(N, ele_start, ele_stop, num_turns_arg) ==
    IF num_turns_arg # None /\ ~(num_turns_arg > 0) THEN PlanError("AssertionError")
    ELSE LET num_turns0 == IF num_turns_arg = None THEN 1 ELSE num_turns_arg IN
         IF ele_stop = None THEN Plan(N - ele_start, num_turns0 - 1, 0)
         ELSE IF ~(ele_stop >= 0 /\ ele_stop <= N) THEN PlanError("AssertionError")
         ELSE LET num_turns == IF ele_stop < ele_start
                               THEN num_turns0 + 1 ELSE num_turns0 IN
              IF num_turns = 1 THEN Plan(ele_stop - ele_start, 0, 0)
              ELSE Plan(N - ele_start, num_turns - 2, ele_stop)

\* Lines 1059-1087: the request by a stop element and a number of turns.
plan_ele_stop(N, ele_start, ele_stop, num_turns_arg) ==
    IF num_turns_arg # None /\ ~(num_turns_arg > 0) THEN PlanError("AssertionError")
    ELSE LET num_turns0 == IF num_turns_arg = None THEN 1 ELSE num_turns_arg IN
         IF ele_stop = None THEN Plan(N - ele_start, num_turns0 - 1, 0)
         ELSE IF ~(ele_stop >= 0 /\ ele_stop <= N) THEN PlanError("AssertionError")
         ELSE LET num_turns == IF ele_stop <= ele_start
                               THEN num_turns0 + 1 ELSE num_turns0 IN
              IF num_turns = 1 THEN Plan(ele_stop - ele_start, 0, 0)
              ELSE Plan(N - ele_start, num_turns - 2, ele_stop)

\* A planner that lets num_elements override ele_stop and num_turns.
plan_no_collective_unchecked(N, ele_start, a) ==
    IF a.num_elements # None
    THEN IF ~(a.num_elements >= 0) THEN PlanError("AssertionError")
         ELSE plan_num_elements(N, ele_start, a.num_elements)
    ELSE plan_ele_stop(N, ele_start, a.ele_stop, a.num_turns)

\* Lines 1038-1087: the checks of the arguments, then the plan.
plan_no_collective(N, ele_start, a) ==
    IF a.num_elements # None
    THEN IF ~(a.num_elements >= 0) THEN PlanError("AssertionError")
         ELSE IF a.ele_stop # None THEN PlanError("ValueError")
         ELSE IF a.num_turns # None THEN PlanError("ValueError")
         ELSE plan_num_elements(N, ele_start, a.num_elements)
    ELSE plan_ele_stop(N, ele_start, a.ele_stop, a.num_turns)

\* The result of a call: err is "" or the exception raised; particles, the
\* log of dispatched work and the monitor are as the call leaves them.
Outcome(err, particles, trace, monitor) ==
    [err |-> err, particles |-> particles, trace |-> trace, monitor |-> monitor]

\* Tracker._check_invalidated (lines 278-282): TRUE when it raises.
\* A test of the count of active particles alone.
active_count_is_valid(particles) == particles.num_active_particles >= 0

\* Lines 779-780 and 1002-1003: the counts of active and lost particles that a
\* CPU context needs have been computed.
counts_are_valid(particles) ==
    particles.num_active_particles >= 0 /\ particles.num_lost_particles >= 0

\* particles.reorganize(): the counts are computed.
reorganize(particles) ==
    LET n_active == Cardinality({ i \in 1..Len(particles.state) :
                                    particles.state[i] > 0 })
    IN [particles EXCEPT !.num_active_particles = n_active,
                         !.num_lost_particles = Len(particles.state) - n_active]

\* Lines 685-687 and 931-933: the counts are marked as not computed.
clean_active_lost_state(particles) ==
    [particles EXCEPT !.num_active_particles = -1, !.num_lost_particles = -1]

check_invalidated(tr) == tr.is_invalidated

\* The three kernel calls (lines 1089-1171).
run_plan(tr, particles, ele_start, pl, tbt, force_no_end_turn_actions) ==
    LET N == tr.num_elements
        no_eot == tr.skip_end_turn_actions \/ force_no_end_turn_actions
        flag_end_first_turn_actions ==
            ~no_eot /\ (pl.num_elements_first_turn + ele_start = N)
        flag_end_middle_turn_actions == ~no_eot
        monitor_turns == IF pl.num_elements_last_turn > 0
                         THEN pl.num_middle_turns + 2
                         ELSE pl.num_middle_turns + 1
        gm == get_monitor(N, tbt, monitor_turns)
        k0 == [particles |-> particles, trace |-> <<>>, samples |-> <<>>]
        kernel_if(called, k, num_turns, es, num_ele_track, eot) ==
            IF called
            THEN track_kernel(tr, k, num_turns, es, num_ele_track, eot,
                              gm.flag_monitor)
            ELSE k
        k1 == kernel_if(TRUE, k0, 1, ele_start, pl.num_elements_first_turn,
                        flag_end_first_turn_actions)
        k2 == kernel_if(pl.num_middle_turns > 0, k1, pl.num_middle_turns, 0, N,
                        flag_end_middle_turn_actions)
        k3 == kernel_if(pl.num_elements_last_turn > 0, k2, 1, 0,
                        pl.num_elements_last_turn, FALSE)
        left(k) == Outcome("", k.particles, k.trace,
                           recorded(gm.monitor, k.samples))
    IN IF ~(pl.num_elements_first_turn >= 0)
       THEN Outcome("AssertionError", particles, <<>>, NoMonitor)
       ELSE left(k3)

\* _track_no_collective (lines 950-1180), forward tracking.
track_no_collective(tr, particles, a, force_no_end_turn_actions) ==
    IF check_invalidated(tr)
    THEN Outcome("RuntimeError", particles, <<>>, NoMonitor)
    ELSE IF tr.context = "ContextCpu" /\ ~counts_are_valid(particles)
    THEN Outcome("AssertionError", particles, <<>>, NoMonitor)
    ELSE IF particles.start_tracking_at_element >= 0 /\ a.ele_start # 0
    THEN Outcome("ValueError", particles, <<>>, NoMonitor)
    ELSE
    LET p1 == IF particles.start_tracking_at_element >= 0
              THEN [particles EXCEPT !.start_tracking_at_element = -1]
              ELSE particles
        es0 == IF particles.start_tracking_at_element >= 0
               THEN particles.start_tracking_at_element ELSE a.ele_start
        ele_start == IF es0 = None THEN 0 ELSE es0
    IN IF ~(ele_start >= 0 /\ ele_start <= tr.num_elements)
       THEN Outcome("AssertionError", p1, <<>>, NoMonitor)
       ELSE LET pl == plan_no_collective(tr.num_elements, ele_start, a) IN
            IF pl.err # "" THEN Outcome(pl.err, p1, <<>>, NoMonitor)
            ELSE run_plan(tr, p1, ele_start, pl, a.turn_by_turn_monitor,
                          force_no_end_turn_actions)

\* ------------------------------------------------- tracking with collective

\* What a call returned or raised.
NoResult == [kind |-> "none", value |-> "", session |-> None]
Returned(v) == [kind |-> "return", value |-> v, session |-> None]
Raised(e) == [kind |-> "raise", value |-> e, session |-> None]
OnHold(si) == [kind |-> "return", value |-> "PipelineStatus", session |-> si]

\* The locals of _track_with_collective.  particles is FALSE while the local
\* `particles` is None (a resumed call before it reaches the saved part).
NoFrame ==
    [ele_start |-> None, ele_stop |-> None, num_turns |-> None,
     num_elements |-> None, flag_monitor |-> 0, tt |-> None, ipp |-> None,
     tt_resume |-> None, ipp_resume |-> None, session_to_resume |-> None,
     particles |-> FALSE, stop_tracking |-> FALSE, skip |-> FALSE,
     returned_by_track |-> "None", moveback_to_buffer |-> "None",
     need_unhide_lost_particles |-> FALSE,
     context_needs_clean_active_lost_state |-> FALSE]

Raise(m, e) == [m EXCEPT !.pc = "idle", !.ret = Raised(e), !.frame = NoFrame]

\* _prepare_collective_track_session (lines 592-661); ele_start is not None.
Prepared(err, particles, ele_start, ele_stop, num_turns) ==
    [err |-> err, particles |-> particles, ele_start |-> ele_start,
     ele_stop |-> ele_stop, num_turns |-> num_turns]

\* Lines 610-637: <<num_turns, ele_stop>> of a request that passed the checks.
stop_position(N, ele_start, a) ==
    IF a.num_elements # None
    THEN LET dm == DivMod(ele_start + a.num_elements, N) IN
         IF dm[2] = 0 THEN <<dm[1], None>> ELSE <<dm[1] + 1, dm[2]>>
    ELSE LET num_turns == IF a.num_turns = None THEN 1 ELSE a.num_turns
             ele_stop == IF a.ele_stop = 0 THEN None ELSE a.ele_stop
         IN IF ele_stop # None /\ ele_stop <= ele_start
            THEN <<num_turns + 1, ele_stop>>
            ELSE <<num_turns, ele_stop>>

prepare_collective_track_session(tr, particles, ele_start0, a) ==
    IF particles.start_tracking_at_element >= 0 /\ ele_start0 # 0
    THEN Prepared("ValueError", particles, None, None, None)
    ELSE
    LET p1 == IF particles.start_tracking_at_element >= 0
              THEN [particles EXCEPT !.start_tracking_at_element = -1]
              ELSE particles
        ele_start == IF particles.start_tracking_at_element >= 0
                     THEN particles.start_tracking_at_element ELSE ele_start0
        N == tr.num_elements
        bad(e) == Prepared(e, p1, None, None, None)
    IN IF ~(ele_start >= 0 /\ ele_start < N) THEN bad("AssertionError")
       ELSE IF a.num_elements # None /\ a.ele_stop # None THEN bad("ValueError")
       ELSE IF a.num_elements # None /\ a.num_turns # None THEN bad("ValueError")
       ELSE IF a.num_elements = None /\ a.num_turns # None /\ ~(a.num_turns > 0)
            THEN bad("AssertionError")
       ELSE LET sp == stop_position(N, ele_start, a) IN
            IF sp[2] # None /\ ~(sp[2] >= 0 /\ sp[2] < N) THEN bad("AssertionError")
            ELSE IF ~(sp[1] >= 1) THEN bad("AssertionError")
            ELSE IF a.turn_by_turn_monitor = "ONE_TURN_EBE"
            THEN bad("AssertionError")
            ELSE Prepared("", p1, ele_start, sp[2], sp[1])

\* monitor.track(particles): one record of the alive particles.  The monitor
\* refuses a record it has no slot for.
monitor_is_full(monitor) == ~(Len(monitor.data) < monitor.stop_at_turn)
monitor_track(monitor, particles) ==
    [monitor EXCEPT !.data = Append(@, MonitorRecord(particles))]

\* Tracker._track_with_collective, a fresh call: lines 761-812.
track_with_collective_entry(m, a) ==
    LET ele_start0 == IF a.ele_start = None THEN 0 ELSE a.ele_start
        pr == prepare_collective_track_session(m.tracker, m.particles,
                                               ele_start0, a)
        gm == get_monitor(m.tracker.num_elements, a.turn_by_turn_monitor,
                          pr.num_turns)
    IN IF check_invalidated(m.tracker) THEN Raise(m, "RuntimeError")
       ELSE IF m.tracker.context = "ContextCpu" /\ ~counts_are_valid(m.particles)
       THEN Raise(m, "ValueError")
       ELSE IF pr.err # ""
       THEN [Raise(m, pr.err) EXCEPT !.particles = pr.particles]
       ELSE [m EXCEPT
              !.particles = pr.particles,
              !.monitor = gm.monitor,
              !.pc = "turn",
              !.frame = [NoFrame EXCEPT
                  !.ele_start = pr.ele_start, !.ele_stop = pr.ele_stop,
                  !.num_turns = pr.num_turns, !.num_elements = a.num_elements,
                  !.flag_monitor = gm.flag_monitor, !.tt = 0,
                  !.particles = TRUE,
                  !.context_needs_clean_active_lost_state =
                      m.particles.num_active_particles < 0]]

\* Tracker._track (lines 284-289)
track(m, a) ==
    IF m.tracker.iscollective \/ m.tracker.enable_time_dependent_vars
    THEN track_with_collective_entry(m, a)
    ELSE LET left(out) == [m EXCEPT !.particles = out.particles,
                                    !.trace = out.trace,
                                    !.monitor = out.monitor,
                                    !.ret = IF out.err = "" THEN Returned("None")
                                            ELSE Raised(out.err)]
         IN left(track_no_collective(m.tracker, m.particles, a, FALSE))

\* track(particles, ..., backtrack=True or 'force'): _track_with_collective
\* refuses (lines 771-773); _track_no_collective tests the line unless forced
\* and runs itself again with XSUITE_BACKTRACK in the config, which
\* _preserve_config puts back afterwards (lines 966-979).
track_backtrack_unchecked(m, a, backtrack) ==
    IF m.tracker.iscollective \/ m.tracker.enable_time_dependent_vars
    THEN Raise(m, "NotImplementedError")
    ELSE LET left(out) == [m EXCEPT !.particles = out.particles,
                                    !.trace = out.trace,
                                    !.monitor = out.monitor,
                                    !.ret = IF out.err = "" THEN Returned("None")
                                            ELSE Raised(out.err)]
         IN left(track_no_collective(
                     [m.tracker EXCEPT !.XSUITE_BACKTRACK = TRUE],
                     m.particles, a, FALSE))

track_backtrack(m, a, backtrack) ==
    IF m.tracker.iscollective \/ m.tracker.enable_time_dependent_vars
    THEN Raise(m, "NotImplementedError")
    ELSE IF backtrack # "force" /\ ~m.tracker.is_backtrackable
    THEN Raise(m, "ValueError")
    ELSE LET left(out) == [m EXCEPT !.particles = out.particles,
                                    !.trace = out.trace,
                                    !.monitor = out.monitor,
                                    !.ret = IF out.err = "" THEN Returned("None")
                                            ELSE Raised(out.err)]
         IN left(track_no_collective(
                     [m.tracker EXCEPT !.XSUITE_BACKTRACK = TRUE],
                     m.particles, a, FALSE))

\* A Session that takes its resumed flag from the call that holds.
Session_inherits_resumed(f) ==
    [particles |-> f.particles, tracker |-> "self",
     ele_start |-> f.ele_start, ele_stop |-> f.ele_stop,
     num_elements |-> f.num_elements, num_turns |-> f.num_turns,
     flag_monitor |-> f.flag_monitor, ipp |-> f.ipp, tt |-> f.tt,
     moveback_to_buffer |-> f.moveback_to_buffer,
     need_unhide_lost_particles |-> f.need_unhide_lost_particles,
     context_needs_clean_active_lost_state |->
         f.context_needs_clean_active_lost_state,
     resumed |-> f.session_to_resume # None]

\* The Session a hold creates (lines 880-899).
Session(f) ==
    [particles |-> f.particles, tracker |-> "self",
     ele_start |-> f.ele_start, ele_stop |-> f.ele_stop,
     num_elements |-> f.num_elements, num_turns |-> f.num_turns,
     flag_monitor |-> f.flag_monitor, ipp |-> f.ipp, tt |-> f.tt,
     moveback_to_buffer |-> f.moveback_to_buffer,
     need_unhide_lost_particles |-> f.need_unhide_lost_particles,
     context_needs_clean_active_lost_state |->
         f.context_needs_clean_active_lost_state,
     resumed |-> FALSE]

\* A resume that does not set the resumed flag (line 803).
resume_keeps_flag(m, by, si) ==
    LET se == m.sessions[si] IN
    IF se.resumed THEN Raise(m, "AssertionError")
    ELSE IF se.tracker # by THEN Raise(m, "AssertionError")
    ELSE [m EXCEPT
           !.pc = "turn",
           !.ret = NoResult,
           !.frame = [NoFrame EXCEPT
               !.ele_start = se.ele_start, !.ele_stop = se.ele_stop,
               !.num_turns = se.num_turns, !.flag_monitor = se.flag_monitor,
               !.tt = 0, !.tt_resume = se.tt, !.ipp_resume = se.ipp,
               !.session_to_resume = si, !.particles = FALSE,
               !.context_needs_clean_active_lost_state =
                   se.context_needs_clean_active_lost_state]]

\* A resume without the tracker identity assert (lines 791-792).
resume_any_tracker(m, by, si) ==
    LET se == m.sessions[si] IN
    IF se.resumed THEN Raise(m, "AssertionError")
    ELSE [m EXCEPT
           !.pc = "turn",
           !.ret = NoResult,
           !.sessions[si].resumed = TRUE,
           !.frame = [NoFrame EXCEPT
               !.ele_start = se.ele_start, !.ele_stop = se.ele_stop,
               !.num_turns = se.num_turns, !.flag_monitor = se.flag_monitor,
               !.tt = 0, !.tt_resume = se.tt, !.ipp_resume = se.ipp,
               !.session_to_resume = si, !.particles = FALSE,
               !.context_needs_clean_active_lost_state =
                   se.context_needs_clean_active_lost_state]]

\* A resume that marks the Session before it tests anything.
resume_marks_first(m, by, si) ==
    LET se == m.sessions[si]
        m1 == [m EXCEPT !.sessions[si].resumed = TRUE]
    IN
    IF (by = "self" /\ check_invalidated(m.tracker)) \/ by = "invalidated"
    THEN Raise(m1, "RuntimeError")
    ELSE IF se.resumed THEN Raise(m1, "AssertionError")
    ELSE IF se.tracker # by THEN Raise(m1, "AssertionError")
    ELSE [m1 EXCEPT
           !.pc = "turn",
           !.ret = NoResult,
           !.frame = [NoFrame EXCEPT
               !.ele_start = se.ele_start, !.ele_stop = se.ele_stop,
               !.num_turns = se.num_turns, !.flag_monitor = se.flag_monitor,
               !.tt = 0, !.tt_resume = se.tt, !.ipp_resume = se.ipp,
               !.session_to_resume = si, !.particles = FALSE,
               !.context_needs_clean_active_lost_state =
                   se.context_needs_clean_active_lost_state]]

\* Tracker.resume on tracker `by` (lines 741-745, 775 and 784-803): the
\* tracker that created the Session ("self"), another one ("other") or
\* another one that has been invalidated ("invalidated").
resume(m, by, si) ==
    LET se == m.sessions[si] IN
    IF (by = "self" /\ check_invalidated(m.tracker)) \/ by = "invalidated"
    THEN Raise(m, "RuntimeError")
    ELSE IF se.resumed THEN Raise(m, "AssertionError")
    ELSE IF se.tracker # by THEN Raise(m, "AssertionError")
    ELSE [m EXCEPT
           !.pc = "turn",
           !.ret = NoResult,
           !.sessions[si].resumed = TRUE,
           !.frame = [NoFrame EXCEPT
               !.ele_start = se.ele_start, !.ele_stop = se.ele_stop,
               !.num_turns = se.num_turns, !.flag_monitor = se.flag_monitor,
               !.tt = 0, !.tt_resume = se.tt, !.ipp_resume = se.ipp,
               !.session_to_resume = si, !.particles = FALSE,
               !.context_needs_clean_active_lost_state =
                   se.context_needs_clean_active_lost_state]]

\* Lines 815-816: a turn before the saved one is passed over.
turn_is_skipped(f) == f.tt_resume # None /\ f.tt < f.tt_resume
turn_skip(m) == [m EXCEPT !.frame.tt = @ + 1]

\* int((state > 0).argmax()): the first alive slot (0-based), 0 when none is.
RECURSIVE FirstActiveFrom(_, _)
FirstActiveFrom(state, i) ==
    IF i > Len(state) THEN 0
    ELSE IF state[i] > 0 THEN i - 1 ELSE FirstActiveFrom(state, i + 1)

\* Lines 822-843: the time gate.  Times are in units of the revolution period.
time_gate(tr, particles) ==
    LET ii_first_active == FirstActiveFrom(particles.state, 1)
        t_turn == At(particles.at_turn, ii_first_active)
                  + tr.t0_time_dependent_vars
    IN IF tr.t_last_update_time_dependent_vars = None
          \/ tr.dt_update_time_dependent_vars = None
          \/ t_turn > tr.t_last_update_time_dependent_vars
                       + tr.dt_update_time_dependent_vars
       THEN [tr EXCEPT !.t_last_update_time_dependent_vars = t_turn,
                       !.t_turn_s = t_turn]
       ELSE tr

\* A test that looks at the first slot only.
first_slot_lost(particles) == particles.state[1] <= 0

no_active_particles(particles) ==
    FirstActiveFrom(particles.state, 1) = 0 /\ particles.state[1] <= 0

\* The head of one turn (lines 818-846): the monitor, then the time gate.
\* A head of the turn that does not look at the turn of the resume.
takes_sample_again(f) == f.flag_monitor # 0 /\ (f.ele_start = 0 \/ f.tt > 0)

takes_sample(f) ==
    /\ f.flag_monitor # 0 /\ (f.ele_start = 0 \/ f.tt > 0)
    /\ ~(f.tt_resume # None /\ f.tt = f.tt_resume)

turn_begin(m) ==
    LET f == m.frame
        tr == m.tracker
        m1 == IF takes_sample(f)
              THEN [m EXCEPT !.monitor = monitor_track(@, m.particles)]
              ELSE m
    IN IF takes_sample(f) /\ ~f.particles THEN Raise(m, "AttributeError")
       ELSE IF takes_sample(f) /\ monitor_is_full(m.monitor)
       THEN Raise(m, "MonitorCapacityError")
       ELSE IF ~tr.enable_time_dependent_vars
       THEN [m1 EXCEPT !.pc = "part", !.frame.ipp = 0,
                       !.frame.moveback_to_buffer = "None"]
       ELSE IF ~f.particles THEN Raise(m1, "AttributeError")
       ELSE IF no_active_particles(m.particles) THEN [m1 EXCEPT !.pc = "finish"]
       ELSE [m1 EXCEPT !.tracker = time_gate(tr, m.particles),
                       !.pc = "part", !.frame.ipp = 0,
                       !.frame.moveback_to_buffer = "None"]

\* Lines 941-948: the end of the call.
finish(m) == [m EXCEPT !.pc = "idle", !.ret = Returned("None"), !.frame = NoFrame]

\* Lines 848-849: a part before the saved one is passed over.
part_is_skipped(f) == f.ipp_resume # None /\ f.ipp < f.ipp_resume
part_skip(m) == [m EXCEPT !.frame.ipp = @ + 1]

\* What _track_part asks of the part: nothing, the step of the collective
\* element, or TrackerPartNonCollective.track with these arguments.
PartCall(stop_tracking, skip, what, ele_start, ele_stop, num_elements) ==
    [stop_tracking |-> stop_tracking, skip |-> skip, what |-> what,
     ele_start |-> ele_start, ele_stop |-> ele_stop,
     num_elements |-> num_elements]

\* Tracker._track_part (lines 699-739)
track_part(tr, pp, tt, ipp, ele_start, ele_stop, num_turns) ==
    LET start_part == At(tr.element_part, ele_start)
        i_start_in_part == At(tr.element_index_in_part, ele_start)
        at_stop_part == /\ ele_stop # None /\ tt = num_turns - 1
                        /\ At(tr.element_part, ele_stop) = ipp
    IN IF tt = 0 /\ ipp < start_part
       THEN PartCall(FALSE, TRUE, "nothing", None, None, None)
       ELSE IF tt = 0 /\ start_part = ipp
       THEN IF i_start_in_part = None
            THEN PartCall(FALSE, FALSE, "collective", None, None, None)
            ELSE IF at_stop_part
                 THEN PartCall(TRUE, FALSE, "part", i_start_in_part,
                               At(tr.element_index_in_part, ele_stop), None)
                 ELSE PartCall(FALSE, FALSE, "part", i_start_in_part, None, None)
       ELSE IF at_stop_part
       THEN IF At(tr.element_index_in_part, ele_stop) # None
            THEN PartCall(TRUE, FALSE, "part", None, None,
                          At(tr.element_index_in_part, ele_stop))
            ELSE PartCall(TRUE, FALSE, "nothing", None, None, None)
       ELSE PartCall(FALSE, FALSE, IF pp.iscoll THEN "collective" ELSE "part",
                     None, None, None)

\* TrackerPartNonCollective.track (lines 1374-1392): the arguments it gives
\* _track_no_collective.
part_track_args(pp, c) ==
    LET temp_ele_start == IF c.ele_start = None THEN pp.ele_start_in_tracker
                          ELSE pp.ele_start_in_tracker + c.ele_start
        temp_ele_stop == IF c.ele_stop = None THEN pp.ele_stop_in_tracker
                         ELSE pp.ele_start_in_tracker + c.ele_stop
        temp_num_elements == IF c.num_elements = None
                             THEN temp_ele_stop - temp_ele_start
                             ELSE c.num_elements
    IN Args(temp_ele_start, None, temp_num_elements, None, "None")

\* The step of a collective element that completes: its physics on every
\* alive particle.  It leaves at_turn and at_element to the scheduler.
collective_element_track(el, particles) ==
    StoreLocal(particles,
        [i \in 1..Len(particles.state) |->
            IF check_is_active(LocalParticle(particles, i))
            THEN element_track_local_particle(el, LocalParticle(particles, i))
            ELSE LocalParticle(particles, i)])

\* The zero-length marker of lines 906-913: at_element + 1 for alive particles.
zerodrift_track(particles) ==
    StoreLocal(particles,
        [i \in 1..Len(particles.state) |->
            IF check_is_active(LocalParticle(particles, i))
            THEN increment_at_element(LocalParticle(particles, i), 1)
            ELSE LocalParticle(particles, i)])

\* self._zerodrift.copy(context) (lines 908-911): the same marker, on the CPU.
zerodrift_cpu_track(particles) == zerodrift_track(particles)

\* Lines 850-872 of the loop over the parts: the local state is restored from
\* the session at the saved part, then the part is tracked.  answer is what
\* the step of a collective element returns: "None", "hold" (a status object
\* on hold) or "status" (a status object that is not on hold).
restored(f, session) ==
    [f EXCEPT !.particles = TRUE, !.tt_resume = None, !.ipp_resume = None,
              !.moveback_to_buffer = session.moveback_to_buffer,
              !.need_unhide_lost_particles = session.need_unhide_lost_particles]

\* hasattr(pp, 'needs_cpu') and pp.needs_cpu: a collective part is the element
\* itself, a TrackerPartNonCollective has no such attribute.
part_needs_cpu(tr, pp) == pp.iscoll /\ At(tr.elements, pp.elem).needs_cpu

\* hasattr(pp, 'needs_hidden_lost_particles') and pp.needs_hidden_lost_particles
part_needs_hidden_lost_particles(tr, pp) ==
    pp.iscoll /\ At(tr.elements, pp.elem).needs_hidden_lost_particles

\* particles.hide_lost_particles() and particles.unhide_lost_particles(): the
\* flag lost_particles_are_hidden that line 693 reads.
hide_lost_particles(particles) ==
    [particles EXCEPT !.lost_particles_are_hidden = TRUE]
unhide_lost_particles(particles) ==
    [particles EXCEPT !.lost_particles_are_hidden = FALSE]

\* Tracker._prepare_particles_for_part (lines 663-697): the buffer is moved to
\* the CPU for a part that needs it and back for one that does not;
\* moveback_to_buffer keeps where it came from.  (reorganize() puts the lost
\* particles last, where they stand in every buffer of the model.)
prepare_residency(particles, needs_cpu, moveback_to_buffer, needs_clean) ==
    IF needs_cpu
    THEN IF moveback_to_buffer = "None" /\ particles.context # "ContextCpu"
         THEN [particles |-> reorganize([particles EXCEPT
                                           !.context = "ContextCpu"]),
               moveback_to_buffer |-> particles.context]
         ELSE [particles |-> particles, moveback_to_buffer |-> moveback_to_buffer]
    ELSE IF moveback_to_buffer # "None"
         THEN LET moved == [particles EXCEPT !.context = moveback_to_buffer]
              IN [particles |-> IF needs_clean
                                THEN clean_active_lost_state(moved) ELSE moved,
                  moveback_to_buffer |-> "None"]
         ELSE [particles |-> particles, moveback_to_buffer |-> moveback_to_buffer]

\* Then (lines 689-697) the lost particles are hidden for a part that needs
\* it; need_unhide_lost_particles tells whether this call hid them.
prepare_particles_for_part(particles, needs_cpu, needs_hidden, moveback_to_buffer, needs_clean) ==
    LET res == prepare_residency(particles, needs_cpu, moveback_to_buffer,
                                 needs_clean) IN
    [particles |-> IF needs_hidden THEN hide_lost_particles(res.particles)
                   ELSE res.particles,
     moveback_to_buffer |-> res.moveback_to_buffer,
     need_unhide_lost_particles |->
         needs_hidden /\ ~res.particles.lost_particles_are_hidden]

part_call(m, answer) ==
    LET f0 == m.frame
        tr == m.tracker
        pp == At(tr.parts, f0.ipp)
        at_saved_part == f0.ipp_resume # None /\ f0.ipp = f0.ipp_resume
        pre == prepare_particles_for_part(m.particles, part_needs_cpu(tr, pp),
                                          part_needs_hidden_lost_particles(tr, pp),
                                          f0.moveback_to_buffer,
                                          f0.context_needs_clean_active_lost_state)
        f == IF at_saved_part
             THEN restored(f0, m.sessions[f0.session_to_resume])
             ELSE [f0 EXCEPT !.moveback_to_buffer = pre.moveback_to_buffer,
                             !.need_unhide_lost_particles =
                                 pre.need_unhide_lost_particles]
        p0 == IF at_saved_part THEN m.particles ELSE pre.particles
        c == track_part(tr, pp, f.tt, f.ipp, f.ele_start, f.ele_stop, f.num_turns)
        f1 == [f EXCEPT !.stop_tracking = c.stop_tracking, !.skip = c.skip,
                        !.returned_by_track = "None"]
        m1 == [m EXCEPT !.pc = "part_ret", !.frame = f1, !.particles = p0]
    IN IF ~at_saved_part /\ ~f0.particles /\ pre.particles # m.particles
       THEN Raise(m, "AttributeError")
       ELSE IF c.what = "nothing" THEN m1
       ELSE IF ~f.particles THEN Raise(m, "AttributeError")
       ELSE IF c.what = "collective"
       THEN IF answer = "hold"
            THEN [m1 EXCEPT !.frame.returned_by_track = "hold"]
            ELSE [m1 EXCEPT
                   !.particles = collective_element_track(
                                     At(tr.elements, pp.elem), p0),
                   !.trace = Append(@, ElementStep(pp.elem)),
                   !.frame.returned_by_track =
                       IF answer = "status" THEN "status" ELSE "None"]
       ELSE LET left(out) ==
                    IF out.err # ""
                    THEN [Raise(m, out.err) EXCEPT !.particles = out.particles]
                    ELSE [m1 EXCEPT !.particles = out.particles,
                                    !.trace = @ \o out.trace]
                bulk(particles, a) ==
                    left(track_no_collective(tr, particles, a, TRUE))
            IN CHOOSE after \in { bulk(particles, a) :
                                    particles \in {p0},
                                    a \in {part_track_args(pp, c)} } : TRUE

\* Lines 874-920: after the part has returned.
next_part(m) ==
    IF m.frame.ipp + 1 < Len(m.tracker.parts)
    THEN [m EXCEPT !.pc = "part", !.frame.ipp = @ + 1]
    ELSE [m EXCEPT !.pc = "turn_end"]

\* A dispatcher that advances at_element before it looks at the hold.
part_return_increment_first(m) ==
    LET f == m.frame
        pp == At(m.tracker.parts, f.ipp)
        m0 == [m EXCEPT !.particles = zerodrift_track(@)]
    IN IF f.returned_by_track = "hold"
       THEN IF ~m.tracker.enable_pipeline_hold THEN Raise(m0, "AssertionError")
            ELSE [m0 EXCEPT !.sessions = Append(@, Session(f)),
                           !.ret = OnHold(Len(m.sessions) + 1),
                           !.pc = "idle", !.frame = NoFrame]
       ELSE IF f.returned_by_track # "None" THEN Raise(m, "UnboundLocalError")
       ELSE IF f.skip THEN next_part(m)
       ELSE LET m1 == IF pp.iscoll /\ ~f.stop_tracking
                      THEN IF f.moveback_to_buffer # "None"
                           THEN [m EXCEPT !.particles = zerodrift_cpu_track(@)]
                           ELSE [m EXCEPT !.particles = zerodrift_track(@)]
                      ELSE m
                m2 == IF f.need_unhide_lost_particles
                      THEN [m1 EXCEPT !.particles = unhide_lost_particles(@)]
                      ELSE m1
            IN IF f.stop_tracking THEN [m2 EXCEPT !.pc = "turn_end"]
               ELSE next_part(m2)

\* A dispatcher that leaves at_element alone while the buffer is on the CPU.
part_return_no_marker_on_cpu(m) ==
    LET f == m.frame
        pp == At(m.tracker.parts, f.ipp)
    IN IF f.returned_by_track = "hold"
       THEN IF ~m.tracker.enable_pipeline_hold THEN Raise(m, "AssertionError")
            ELSE [m EXCEPT !.sessions = Append(@, Session(f)),
                           !.ret = OnHold(Len(m.sessions) + 1),
                           !.pc = "idle", !.frame = NoFrame]
       ELSE IF f.returned_by_track # "None" THEN Raise(m, "UnboundLocalError")
       ELSE IF f.skip THEN next_part(m)
       ELSE LET m1 == IF pp.iscoll /\ ~f.stop_tracking
                      THEN IF f.moveback_to_buffer # "None"
                           THEN m
                           ELSE [m EXCEPT !.particles = zerodrift_track(@)]
                      ELSE m
                m2 == IF f.need_unhide_lost_particles
                      THEN [m1 EXCEPT !.particles = unhide_lost_particles(@)]
                      ELSE m1
            IN IF f.stop_tracking THEN [m2 EXCEPT !.pc = "turn_end"]
               ELSE next_part(m2)

\* Lines 874-920: the hold, the skip, the zero-length marker, the stop.  Line
\* 900 stands outside the test of on_hold: a status object that is not on hold
\* reaches it with session_on_hold unbound.
part_return(m) ==
    LET f == m.frame
        pp == At(m.tracker.parts, f.ipp)
    IN IF f.returned_by_track = "hold"
       THEN IF ~m.tracker.enable_pipeline_hold THEN Raise(m, "AssertionError")
            ELSE [m EXCEPT !.sessions = Append(@, Session(f)),
                           !.ret = OnHold(Len(m.sessions) + 1),
                           !.pc = "idle", !.frame = NoFrame]
       ELSE IF f.returned_by_track # "None" THEN Raise(m, "UnboundLocalError")
       ELSE IF f.skip THEN next_part(m)
       ELSE LET m1 == IF pp.iscoll /\ ~f.stop_tracking
                      THEN IF f.moveback_to_buffer # "None"
                           THEN [m EXCEPT !.particles = zerodrift_cpu_track(@)]
                           ELSE [m EXCEPT !.particles = zerodrift_track(@)]
                      ELSE m
                m2 == IF f.need_unhide_lost_particles
                      THEN [m1 EXCEPT !.particles = unhide_lost_particles(@)]
                      ELSE m1
            IN IF f.stop_tracking THEN [m2 EXCEPT !.pc = "turn_end"]
               ELSE next_part(m2)

\* Lines 922-939: the end of one turn.
turn_end(m) ==
    IF m.frame.stop_tracking THEN [m EXCEPT !.pc = "finish"]
    ELSE LET N == m.tracker.num_elements
             back == m.frame.moveback_to_buffer
             moved == [m.particles EXCEPT !.context = back]
             p0 == IF back = "None" THEN m.particles
                   ELSE IF m.frame.context_needs_clean_active_lost_state
                   THEN clean_active_lost_state(moved)
                   ELSE moved
             left(out) ==
                 IF out.err # ""
                 THEN [Raise(m, out.err) EXCEPT !.particles = out.particles]
                 ELSE [m EXCEPT !.particles = out.particles,
                                !.trace = @ \o out.trace,
                                !.pc = "turn", !.frame.tt = @ + 1,
                                !.frame.moveback_to_buffer = "None"]
         IN left(track_no_collective(m.tracker, p0,
                                     Args(N, None, 0, None, "None"), FALSE))

\* ------------------------------------------------------------ the state

VARIABLES
    split,      \* the locals of _split_parts_for_collective_mode
    tracker,    \* the Tracker and the settings of its line
    particles,  \* the particle buffer
    pc,         \* where _track_with_collective stands ("idle": no call runs)
    frame,      \* its locals
    sessions,   \* the Sessions created so far, in order
    ret,        \* what the last call returned or raised
    trace,      \* history: the work dispatched by the present run, in order
    monitor,    \* the monitor of the present run
    env,        \* what the surroundings may still do: hold signals, calls;
                \* history: the turns asked for when every call so far was
                \* track(num_turns=t) (None otherwise)
    run,        \* history: the request and the state the present run began with
    call        \* history: the last call made

vars == <<split, tracker, particles, pc, frame, sessions, ret, trace, monitor,
          env, run, call>>

M == [tracker |-> tracker, particles |-> particles, pc |-> pc, frame |-> frame,
      sessions |-> sessions, ret |-> ret, trace |-> trace, monitor |-> monitor]

Becomes(m) ==
    /\ tracker' = m.tracker
    /\ particles' = m.particles
    /\ pc' = m.pc
    /\ frame' = m.frame
    /\ sessions' = m.sessions
    /\ ret' = m.ret
    /\ trace' = m.trace
    /\ monitor' = m.monitor

\* How the run stands after a step of it.
RunResult(m) ==
    IF m.pc # "idle" THEN "running"
    ELSE IF m.ret.kind = "raise" THEN "raised"
    ELSE IF m.ret.value = "None" THEN "completed"
    ELSE "held"

\* backtrack is the argument of that name ("False", "True" or "force");
\* previous is the run before, when the call follows a completed run at once.
NoPrevious == [result |-> "none", args |-> Args(None, None, None, None, "None"),
               backtrack |-> "False", particles |-> <<>>, trace |-> <<>>]
NoRun == [result |-> "none", args |-> Args(None, None, None, None, "None"),
          particles |-> <<>>, tracker |-> <<>>, backtrack |-> "False",
          previous |-> NoPrevious]
NoCall == [op |-> "none", by |-> "", session |-> None]

\* TrackerData._is_backtrackable: every element of the tracker data has a map
\* for tracking backwards.
is_backtrackable(elements) ==
    \A i \in 1..Len(elements) : elements[i].backtrackable

\* Tracker.__init__ (lines 63-108 and 110-116) on a line of these elements.
Tracker(elements, enable_pipeline_hold, enable_time_dependent_vars) ==
    LET sp == split_parts_for_collective_mode(elements)
        iscollective == \E i \in 1..Len(elements) : check_is_collective(elements[i])
    IN [elements |-> elements,
        num_elements |-> Len(elements),
        iscollective |-> iscollective,
        enable_pipeline_hold |-> enable_pipeline_hold,
        parts |-> sp.parts,
        element_part |-> sp.element_part,
        element_index_in_part |-> sp.element_index_in_part,
        tracker_data_elements |-> IF iscollective THEN sp.noncollective_xelements
                                  ELSE elements,
        skip_end_turn_actions |-> FALSE,
        enable_time_dependent_vars |-> enable_time_dependent_vars,
        t0_time_dependent_vars |-> 0,
        dt_update_time_dependent_vars |-> None,
        t_last_update_time_dependent_vars |-> None,
        t_turn_s |-> None,
        is_backtrackable |-> is_backtrackable(
                                 IF iscollective THEN sp.noncollective_xelements
                                 ELSE elements),
        XSUITE_BACKTRACK |-> FALSE,
        is_invalidated |-> FALSE,
        invalidated_parts |-> <<>>,
        context |-> "ContextCpu"]

\* Tracker._invalidate (lines 270-276).
invalidate(tr) ==
    IF tr.iscollective
    THEN [tr EXCEPT !.invalidated_parts = tr.parts, !.parts = <<>>,
                    !.is_invalidated = TRUE]
    ELSE [tr EXCEPT !.is_invalidated = TRUE]

\* A fresh buffer: every particle alive at turn 0, element 0; the last slot
\* holds a particle wide enough to be lost at an aperture.
NewParticles ==
    [state |-> [i \in 1..NumParticles |-> 1],
     at_turn |-> [i \in 1..NumParticles |-> 0],
     at_element |-> [i \in 1..NumParticles |-> 0],
     wide |-> [i \in 1..NumParticles |-> i = NumParticles],
     start_tracking_at_element |-> -1,
     context |-> "ContextCpu",
     lost_particles_are_hidden |-> FALSE,
     num_active_particles |-> NumParticles,
     num_lost_particles |-> 0]

\* The lines of n elements: any collective flags, at most one aperture, at
\* one of the places aps (None: no aperture).
Lines(n, aps) ==
    { [i \in 1..n |-> Element(fl[i], ap = i - 1)] :
        fl \in [1..n -> {"True", "False"}], ap \in aps }

HasCollective(elements) ==
    \E i \in 1..Len(elements) : check_is_collective(elements[i])

\* The same lines with needs_cpu set on any of the collective elements.
LinesOnCpu(n) ==
    UNION { { [i \in 1..n |-> [l[i] EXCEPT !.needs_cpu = i \in cpu]] :
                cpu \in SUBSET { i \in 1..n : check_is_collective(l[i]) } } :
            l \in Lines(n, {None}) }

\* The same lines with needs_cpu and needs_hidden_lost_particles set on any of
\* the collective elements.
LinesHidden(n) ==
    UNION { { [i \in 1..n |->
                 [l[i] EXCEPT !.needs_hidden_lost_particles = i \in hid]] :
                hid \in SUBSET { i \in 1..n : check_is_collective(l[i]) } } :
            l \in LinesOnCpu(n) }

\* A buffer on another context, left at element at by an earlier run.
ParticlesAt(context, at) ==
    [NewParticles EXCEPT !.context = context,
                         !.at_element = [i \in 1..NumParticles |-> at]]

InitBuffer(elements, p, eph, tdv, holds, calls) ==
    /\ split = split_parts_for_collective_mode(elements)
    /\ tracker = [Tracker(elements, eph, tdv) EXCEPT !.context = p.context]
    /\ particles = p
    /\ pc = "idle"
    /\ frame = NoFrame
    /\ sessions = <<>>
    /\ ret = NoResult
    /\ trace = <<>>
    /\ monitor = NoMonitor
    /\ env = [holds_left |-> holds, calls_left |-> calls, first |-> TRUE,
              turns |-> 0]
    /\ run = NoRun
    /\ call = NoCall

InitTracking(elements, eph, tdv, holds, calls) ==
    InitBuffer(elements, NewParticles, eph, tdv, holds, calls)

\* The requests made of a tracker with N elements: by a number of elements,
\* by a stop element and a number of turns, and two with arguments that
\* exclude each other.  S holds the values of ele_start.
OptIndex(N) == {None} \cup 0..N
NumElementsRequests(S, N) ==
    { Args(es, None, n, None, "None") : es \in S, n \in 0..(N + MaxExtraElems) }
StopRequests(S, N, monitors) ==
    { Args(es, e, None, t, tbt) :
        es \in S, e \in OptIndex(N), t \in 1..MaxTurns, tbt \in monitors }
    \cup { Args(es, e, None, None, "None") : es \in S, e \in OptIndex(N) }
BadRequests ==
    { Args(None, 1, 1, None, "None"), Args(None, None, 1, 1, "None") }

\* Requests with arguments that exclude each other, or with an index past
\* the end of the line, or with no turn.
InvalidRequests(N) ==
    { Args(es, e, n, t, "None") :
        es \in OptIndex(N), e \in {None, 0, 1}, n \in {0, 1}, t \in {None, 1} }
    \cup { Args(es, e, None, t, "None") :
             es \in {None, 0, N + 1}, e \in {None, 1, N + 1}, t \in {None, 0, 2} }

\* Requests with a monitor, from the element where the buffer stands: True,
\* 'ONE_TURN_EBE' or a monitor object.
MonitorRequests(N) ==
    StopRequests({particles.at_element[1]} \cap 0..N, N,
                 {"True", "ONE_TURN_EBE"} \cup MonitorObjects)

\* The first request of a behaviour starts anywhere; a later one starts where
\* the first particle of the buffer stands.
Requests(N) ==
    IF env.first
    THEN NumElementsRequests(OptIndex(N), N)
         \cup StopRequests(OptIndex(N), N, {"None", "True"}) \cup BadRequests
    ELSE NumElementsRequests({particles.at_element[1]} \cap 0..N, N)
         \cup StopRequests({particles.at_element[1]} \cap 0..N, N, {"None"})

\* track(particles, num_turns=t), or the same with ele_start=0.
IsWholeTurns(a) ==
    /\ a.ele_start \in {None, 0} /\ a.ele_stop = None
    /\ a.num_elements = None /\ a.num_turns # None

\* ------------------------------------------------------------ the actions

Steps(after) ==
    \E m \in {after} :
        /\ Becomes(m)
        /\ run' = [run EXCEPT !.result = RunResult(m)]
        /\ UNCHANGED <<split, env, call>>

\* track(particles, ...) on an idle tracker, with one of these requests.
TrackOneOf(requests) ==
    /\ pc = "idle" /\ run.result = "none" /\ env.calls_left > 0
    /\ \E a \in requests : \E m \in {track(M, a)} :
         /\ Becomes(m)
         /\ run' = [result |-> RunResult(m), args |-> a,
                     particles |-> particles, tracker |-> tracker,
                     backtrack |-> "False", previous |-> NoPrevious]
         /\ env' = [env EXCEPT !.calls_left = @ - 1, !.first = FALSE,
                                !.turns = IF IsWholeTurns(a) /\ @ # None
                                          THEN @ + a.num_turns ELSE None]
    /\ call' = [op |-> "track", by |-> "self", session |-> None]
    /\ UNCHANGED split

Track == TrackOneOf(Requests(tracker.num_elements))

\* track(particles, ..., backtrack=...) as the first call, or at once after a
\* completed one (whose log, monitor and result the new call replaces); the
\* request may be the one of the call before.
TrackBack ==
    /\ pc = "idle" /\ run.result \in {"none", "completed"} /\ env.calls_left > 0
    /\ \E a \in Requests(tracker.num_elements)
                \cup (IF run.result = "completed" THEN {run.args} ELSE {}),
          backtrack \in {"True", "force"} :
       \E m \in {track_backtrack([M EXCEPT !.ret = NoResult, !.trace = <<>>,
                                            !.monitor = NoMonitor],
                                  a, backtrack)} :
         /\ Becomes(m)
         /\ run' = [result |-> RunResult(m), args |-> a,
                     particles |-> particles, tracker |-> tracker,
                     backtrack |-> backtrack,
                     previous |-> IF run.result = "none" THEN NoPrevious
                                  ELSE [result |-> run.result, args |-> run.args,
                                        backtrack |-> run.backtrack,
                                        particles |-> run.particles,
                                        trace |-> trace]]
         /\ env' = [env EXCEPT !.calls_left = @ - 1, !.first = FALSE,
                                !.turns = None]
    /\ call' = [op |-> "track", by |-> "self", session |-> None]
    /\ UNCHANGED split

\* track(particles, ...) with any request, valid or not.
TrackAny ==
    TrackOneOf(Requests(tracker.num_elements)
               \cup InvalidRequests(tracker.num_elements))

\* track(particles, ..., turn_by_turn_monitor=...).
TrackMonitored == TrackOneOf(MonitorRequests(tracker.num_elements))

\* resume(session) on one of these trackers.
ResumeOf(trackers, handed) ==
    /\ pc = "idle"
    /\ \E by \in trackers, si \in handed :
       \E m \in {resume(M, by, si)} :
         /\ Becomes(m)
         /\ run' = IF m.pc = "idle" THEN run ELSE [run EXCEPT !.result = "running"]
         /\ call' = [op |-> "resume", by |-> by, session |-> si]
    /\ UNCHANGED <<split, env>>

ResumeBy(trackers) == ResumeOf(trackers, 1..Len(sessions))

\* resume(session) on this tracker ("self") or on another one.
Resume == ResumeBy({"self", "other"})

\* The same, or on another tracker that has been invalidated.
ResumeAnyTracker == ResumeBy({"self", "other", "invalidated"})

\* The line is unfrozen between two calls: the tracker is invalidated.
Invalidate ==
    /\ pc = "idle" /\ ~tracker.is_invalidated
    /\ tracker' = invalidate(tracker)
    /\ call' = [op |-> "_invalidate", by |-> "self", session |-> None]
    /\ UNCHANGED <<split, particles, pc, frame, sessions, ret, trace, monitor,
                   env, run>>

TurnSkip ==
    /\ pc = "turn" /\ frame.tt < frame.num_turns /\ turn_is_skipped(frame)
    /\ Steps(turn_skip(M))

TurnBegin ==
    /\ pc = "turn" /\ frame.tt < frame.num_turns /\ ~turn_is_skipped(frame)
    /\ Steps(turn_begin(M))

PartSkip ==
    /\ pc = "part" /\ part_is_skipped(frame)
    /\ Steps(part_skip(M))

\* The part is tracked; a collective element called gives one of answers.
PartTrackAnswer(answers) ==
    /\ pc = "part" /\ ~part_is_skipped(frame)
    /\ \E answer \in answers : \E m \in {part_call(M, answer)} :
         /\ answer = "hold" =>
              /\ env.holds_left > 0 /\ m.pc = "part_ret"
              /\ m.frame.returned_by_track = "hold"
         /\ Becomes(m)
         /\ run' = [run EXCEPT !.result = RunResult(m)]
         /\ env' = IF answer = "hold" THEN [env EXCEPT !.holds_left = @ - 1]
                    ELSE env
    /\ UNCHANGED <<split, call>>

\* A collective element called completes or signals hold.
PartTrack == PartTrackAnswer({"None", "hold"})

\* The same, and it may return a status object that is not on hold.
PartTrackStatus == PartTrackAnswer({"None", "hold", "status"})

PartReturn ==
    /\ pc = "part_ret"
    /\ Steps(part_return(M))

TurnEnd ==
    /\ pc = "turn_end"
    /\ Steps(turn_end(M))

Finish ==
    /\ (pc = "finish" \/ (pc = "turn" /\ ~(frame.tt < frame.num_turns)))
    /\ Steps(finish(M))

\* The caller drops the finished run and its sessions.
Forget ==
    /\ pc = "idle" /\ run.result \in {"completed", "raised"}
    /\ env.calls_left > 0
    /\ sessions' = <<>> /\ ret' = NoResult /\ trace' = <<>>
    /\ monitor' = NoMonitor /\ run' = NoRun /\ call' = NoCall
    /\ UNCHANGED <<split, tracker, particles, pc, frame, env>>

\* ------------------------------------------------------ the specifications

\* Hold and resume: one run on a tracker with collective elements.
Init ==
    \E n \in 1..MaxElems : \E elements \in Lines(n, {None}) :
    \E eph \in BOOLEAN, tdv \in BOOLEAN :
        /\ HasCollective(elements)
        /\ (eph /\ ~tdv) \/ n < MaxElems
        /\ eph \/ ~tdv
        /\ InitTracking(elements, eph, tdv, MaxHolds, 1)

Next ==
    \/ Track
    \/ Resume
    \/ TurnSkip
    \/ TurnBegin
    \/ PartSkip
    \/ PartTrack
    \/ PartReturn
    \/ TurnEnd
    \/ Finish

Spec == Init /\ [][Next]_vars

\* Ranges: successive runs, no hold, with and without collective elements.
InitRange ==
    \E n \in 1..MaxElems : \E elements \in Lines(n, {None, 0}) :
        InitTracking(elements, FALSE, FALSE, 0, MaxCalls)

NextRange ==
    \/ Track
    \/ TurnBegin
    \/ PartTrack
    \/ PartReturn
    \/ TurnEnd
    \/ Finish
    \/ Forget

SpecRange == InitRange /\ [][NextRange]_vars

\* Losses: successive runs on lines with an aperture at any element, from a
\* buffer that stands at any element.
InitLost ==
    \E n \in 1..MaxElems : \E elements \in Lines(n, 0..(n - 1)) :
    \E at \in 0..(n - 1) :
        InitBuffer(elements, ParticlesAt("ContextCpu", at), FALSE, FALSE, 0,
                   MaxCalls)

SpecLost == InitLost /\ [][NextRange]_vars

\* Early termination: successive runs with time-dependent variables on lines
\* with an aperture at any element, any of the particles wide enough to be
\* lost there.
InitEarly ==
    \E n \in 1..MaxElems : \E elements \in Lines(n, 0..(n - 1)) :
    \E dt \in {None, MaxInterval} : \E wide \in [1..NumParticles -> BOOLEAN] :
        /\ split = split_parts_for_collective_mode(elements)
        /\ tracker = [Tracker(elements, FALSE, TRUE)
                         EXCEPT !.dt_update_time_dependent_vars = dt]
        /\ particles = [NewParticles EXCEPT !.wide = wide]
        /\ pc = "idle" /\ frame = NoFrame /\ sessions = <<>> /\ ret = NoResult
        /\ trace = <<>> /\ monitor = NoMonitor
        /\ env = [holds_left |-> 0, calls_left |-> MaxCalls, first |-> TRUE,
                  turns |-> 0]
        /\ run = NoRun /\ call = NoCall

SpecEarly == InitEarly /\ [][NextRange]_vars

\* Counts of active and lost particles: successive runs of a tracker on the
\* CPU or on another context, on a buffer of that context whose counts have
\* been computed or not, with or without a start element stored in it.
InitCounts ==
    \E n \in 1..(MaxElems - 1) : \E elements \in LinesOnCpu(n) :
    \E context \in {"ContextCpu", "ContextCupy"} :
    \E n_active \in {-1, NumParticles}, n_lost \in {-1, 0} :
    \E at \in {-1, 0} :
        InitBuffer(elements,
                   [NewParticles EXCEPT !.context = context,
                                        !.num_active_particles = n_active,
                                        !.num_lost_particles = n_lost,
                                        !.start_tracking_at_element = at],
                   FALSE, FALSE, 0, MaxCalls)

SpecCounts == InitCounts /\ [][NextRange]_vars

\* Monitored runs with holds: one run with a monitor on a tracker with
\* collective elements that may hold, the buffer standing at any element.
InitSampled ==
    \E n \in 1..MaxElems : \E elements \in Lines(n, {None, 0}) :
    \E at \in 0..(n - 1) :
        /\ HasCollective(elements)
        /\ InitBuffer(elements, ParticlesAt("ContextCpu", at), TRUE, FALSE,
                      MaxHolds, 1)

NextSampled ==
    \/ TrackMonitored
    \/ Resume
    \/ TurnSkip
    \/ TurnBegin
    \/ PartSkip
    \/ PartTrack
    \/ PartReturn
    \/ TurnEnd
    \/ Finish

SpecSampled == InitSampled /\ [][NextSampled]_vars

\* Termination: one run with a valid, finite request (a number of elements
\* of at least one, or a stop element and a number of turns, from an element
\* of the line) on a tracker whose collective elements may hold MaxHolds
\* times.  The interpreter goes on to the next step of the call, every
\* collective step returns, and the caller resumes every Session it is handed:
\* weak fairness of the next step.
ValidRequests(N) ==
    { Args(es, None, n, None, "None") :
        es \in {None} \cup 0..(N - 1), n \in 1..(N + MaxExtraElems) }
    \cup { Args(es, e, None, t, "None") :
             es \in {None} \cup 0..(N - 1), e \in {None} \cup 0..(N - 1),
             t \in 1..MaxTurns }

TrackValid == TrackOneOf(ValidRequests(tracker.num_elements))

\* The caller resumes, on the tracker that made it, the Session that the last
\* call handed out.
ResumeReturned ==
    /\ ret.session # None /\ ret = OnHold(ret.session)
    /\ ResumeOf({"self"}, {ret.session})

InitLive ==
    \E n \in 1..(MaxElems - 1) : \E elements \in Lines(n, {None}) :
    \E tdv \in BOOLEAN :
        InitTracking(elements, HasCollective(elements), tdv, MaxHolds, 1)

NextLive ==
    \/ TrackValid
    \/ ResumeReturned
    \/ TurnSkip
    \/ TurnBegin
    \/ PartSkip
    \/ PartTrack
    \/ PartReturn
    \/ TurnEnd
    \/ Finish

SpecLive == InitLive /\ [][NextLive]_vars /\ WF_vars(NextLive)

\* Backtracking: a forward call and a call with backtrack, or the latter
\* alone, on lines with at most one element that has no backward map.
LinesBack(n) ==
    { [i \in 1..n |-> [l[i] EXCEPT !.backtrackable = (nb # i - 1)]] :
        l \in Lines(n, {None, 0}), nb \in {None} \cup 0..(n - 1) }

InitBack ==
    \E n \in 1..MaxElems : \E elements \in LinesBack(n) :
        InitTracking(elements, FALSE, FALSE, 0, MaxCalls)

NextBack ==
    \/ Track
    \/ TrackBack
    \/ TurnBegin
    \/ PartTrack
    \/ PartReturn
    \/ TurnEnd
    \/ Finish

SpecBack == InitBack /\ [][NextBack]_vars

\* Any request: one call on a buffer whose start_tracking_at_element may be
\* set (to an element, or past the end of the line).
InitAny ==
    \E n \in 1..MaxElems : \E elements \in Lines(n, {None}) :
    \E at \in -1..(n + 1) :
        InitBuffer(elements,
                   [NewParticles EXCEPT !.start_tracking_at_element = at],
                   FALSE, FALSE, 0, 1)

NextAny ==
    \/ TrackAny
    \/ TurnBegin
    \/ PartTrack
    \/ PartReturn
    \/ TurnEnd
    \/ Finish

SpecAny == InitAny /\ [][NextAny]_vars

\* Buffer residency: one run with holds on a line whose collective elements
\* may need the CPU, the buffer on another context and at any element.
InitCpu ==
    \E n \in 1..MaxElems : \E elements \in LinesOnCpu(n) : \E at \in 0..(n - 1) :
        /\ HasCollective(elements)
        /\ InitBuffer(elements, ParticlesAt("ContextCupy", at), TRUE, FALSE, 1, 1)

SpecCpu == InitCpu /\ [][Next]_vars

\* Residency and hidden lost particles: one run with a hold on a line whose
\* collective elements may need the CPU or hidden lost particles; the buffer
\* is on another context, its lost particles visible.
InitHidden ==
    \E n \in 1..MaxElems : \E elements \in LinesHidden(n) :
        /\ HasCollective(elements)
        /\ InitBuffer(elements, ParticlesAt("ContextCupy", 0), TRUE, FALSE, 1, 1)

SpecHidden == InitHidden /\ [][Next]_vars

\* Monitors: one run with a monitor, with and without collective elements,
\* the buffer at any element of the line.
InitMonitor ==
    \E n \in 1..MaxElems : \E elements \in Lines(n, {None, 0}) :
    \E at \in 0..(n - 1) :
        InitBuffer(elements, ParticlesAt("ContextCpu", at), FALSE, FALSE, 0, 1)

NextMonitor ==
    \/ TrackMonitored
    \/ TurnBegin
    \/ PartTrack
    \/ PartReturn
    \/ TurnEnd
    \/ Finish

SpecMonitor == InitMonitor /\ [][NextMonitor]_vars

\* The construction of a monitor: call holds the arguments of _monitor_init,
\* monitor what it has initialized.
InitAlloc ==
    /\ split = SplitStart(<<>>)
    /\ tracker = <<>> /\ particles = <<>> /\ pc = "idle" /\ frame = NoFrame
    /\ sessions = <<>> /\ ret = NoResult /\ trace = <<>> /\ monitor = NoMonitor
    /\ env = [holds_left |-> 0, calls_left |-> 0, first |-> TRUE, turns |-> 0]
    /\ run = NoRun
    /\ \E start \in 0..MaxWindow, np \in 0..MaxSlots :
       \E stop \in start..MaxWindow :
          call = [op |-> "_monitor_init", start_at_turn |-> start,
                  stop_at_turn |-> stop, num_particles |-> np]

MonitorInit ==
    /\ call.op = "_monitor_init" /\ monitor = NoMonitor
    /\ monitor' = monitor_init(call.start_at_turn, call.stop_at_turn,
                               call.num_particles)
    /\ UNCHANGED <<split, tracker, particles, pc, frame, sessions, ret, trace,
                   env, run, call>>

NextAlloc == MonitorInit

SpecAlloc == InitAlloc /\ [][NextAlloc]_vars

\* The time gate: successive runs on a line with time-dependent variables,
\* with no minimum interval between refreshes (None) or one of some turns.
InitGate ==
    \E n \in 1..MaxElems : \E elements \in Lines(n, {None}) :
    \E dt \in {None} \cup 1..MaxInterval :
        /\ split = split_parts_for_collective_mode(elements)
        /\ tracker = [Tracker(elements, FALSE, TRUE)
                         EXCEPT !.dt_update_time_dependent_vars = dt]
        /\ particles = NewParticles
        /\ pc = "idle" /\ frame = NoFrame /\ sessions = <<>> /\ ret = NoResult
        /\ trace = <<>> /\ monitor = NoMonitor
        /\ env = [holds_left |-> 0, calls_left |-> MaxCalls, first |-> TRUE,
                  turns |-> 0]
        /\ run = NoRun /\ call = NoCall

SpecGate == InitGate /\ [][NextRange]_vars

\* Status objects: one run in which a collective element may also return a
\* status object that is not on hold.
InitStatus ==
    \E n \in 1..MaxElems : \E elements \in Lines(n, {None}) :
        /\ HasCollective(elements)
        /\ InitTracking(elements, TRUE, FALSE, 1, 1)

NextStatus ==
    \/ Track
    \/ Resume
    \/ TurnSkip
    \/ TurnBegin
    \/ PartSkip
    \/ PartTrackStatus
    \/ PartReturn
    \/ TurnEnd
    \/ Finish

SpecStatus == InitStatus /\ [][NextStatus]_vars

\* Invalidation: one run with a hold; the tracker may be invalidated between
\* two calls and the Session given to any tracker.
InitInvalid ==
    \E n \in 1..MaxElems : \E elements \in Lines(n, {None}) :
        /\ HasCollective(elements)
        /\ InitTracking(elements, TRUE, FALSE, 1, 1)

NextInvalid ==
    \/ Track
    \/ Invalidate
    \/ ResumeAnyTracker
    \/ TurnSkip
    \/ TurnBegin
    \/ PartSkip
    \/ PartTrack
    \/ PartReturn
    \/ TurnEnd
    \/ Finish

SpecInvalid == InitInvalid /\ [][NextInvalid]_vars

\* Tracker.__init__ (lines 63-72): the error it raises, "" when it goes on.
init_error(elements, enable_pipeline_hold) ==
    IF enable_pipeline_hold /\ ~HasCollective(elements) THEN "ValueError" ELSE ""

\* A setter that takes any value on any tracker.
set_enable_pipeline_hold_unchecked(tr, value) ==
    [err |-> "", tracker |-> [tr EXCEPT !.enable_pipeline_hold = value]]

\* The setter of enable_pipeline_hold (lines 314-320).
set_enable_pipeline_hold(tr, value) ==
    IF ~tr.iscollective THEN [err |-> "ValueError", tracker |-> tr]
    ELSE [err |-> "", tracker |-> [tr EXCEPT !.enable_pipeline_hold = value]]

\* Construction: no tracker yet; Tracker(line, enable_pipeline_hold=...) builds
\* one on any line, the setter is called on it before its run.
InitBuild ==
    /\ split = SplitStart(<<>>)
    /\ tracker = <<>> /\ particles = NewParticles /\ pc = "unbuilt"
    /\ frame = NoFrame /\ sessions = <<>> /\ ret = NoResult /\ trace = <<>>
    /\ monitor = NoMonitor
    /\ env = [holds_left |-> 1, calls_left |-> 1, first |-> TRUE, turns |-> 0]
    /\ run = NoRun /\ call = NoCall

Build ==
    /\ pc = "unbuilt" /\ ret = NoResult
    /\ \E n \in 1..MaxElems : \E elements \in Lines(n, {None}) :
       \E eph \in BOOLEAN :
         /\ call' = [op |-> "__init__", elements |-> elements,
                     enable_pipeline_hold |-> eph]
         /\ IF init_error(elements, eph) # ""
            THEN /\ ret' = Raised(init_error(elements, eph))
                 /\ UNCHANGED <<split, tracker, pc>>
            ELSE /\ split' = split_parts_for_collective_mode(elements)
                 /\ tracker' = Tracker(elements, eph, FALSE)
                 /\ pc' = "idle"
                 /\ ret' = NoResult
    /\ UNCHANGED <<particles, frame, sessions, trace, monitor, env, run>>

SetHold ==
    /\ pc = "idle" /\ run.result = "none"
    /\ \E value \in BOOLEAN : \E res \in {set_enable_pipeline_hold(tracker, value)} :
         /\ call' = [op |-> "enable_pipeline_hold", value |-> value]
         /\ tracker' = res.tracker
         /\ ret' = IF res.err # "" THEN Raised(res.err) ELSE NoResult
    /\ UNCHANGED <<split, particles, pc, frame, sessions, trace, monitor, env, run>>

NextBuild ==
    \/ Build
    \/ SetHold
    \/ Track
    \/ TurnBegin
    \/ PartTrack
    \/ PartReturn
    \/ TurnEnd
    \/ Finish

SpecBuild == InitBuild /\ [][NextBuild]_vars

\* ------------------------------------------------------- the TrackerConfig

\* A TrackerConfig over the flags ConfigKeys: data[k] is the value stored for k
\* ("True", "False", "None"), "absent" when k is not a key of the dict.
ConfigKeys == <<"XSUITE_BACKTRACK", "XTRACK_GLOBAL_XY_LIMIT">>
ConfigKeySet == { ConfigKeys[i] : i \in 1..Len(ConfigKeys) }
ConfigValues == {"True", "False", "None"}
EmptyConfig == [k \in ConfigKeySet |-> "absent"]
Dicts == [ConfigKeySet -> ConfigValues \cup {"absent"}]

\* TrackerConfig.__setitem__ (lines 1339-1343): config[idx] = val.
TrackerConfig_setitem(data, idx, val) ==
    IF val = "False" /\ data[idx] # "absent"
    THEN [data EXCEPT ![idx] = "absent"]
    ELSE [data EXCEPT ![idx] = val]

\* TrackerConfig.__setattr__ (lines 1345-1351): config.idx = val.
TrackerConfig_setattr(data, idx, val) ==
    IF val # "False" /\ val # "None" THEN [data EXCEPT ![idx] = val]
    ELSE IF data[idx] # "absent" THEN [data EXCEPT ![idx] = "absent"]
    ELSE data

\* MutableMapping.update: self[key] = other[key] for the keys of other.
RECURSIVE SetItems(_, _, _)
SetItems(data, other, i) ==
    IF i > Len(ConfigKeys) THEN data
    ELSE SetItems(IF other[ConfigKeys[i]] = "absent" THEN data
                  ELSE TrackerConfig_setitem(data, ConfigKeys[i],
                                             other[ConfigKeys[i]]),
                  other, i + 1)

\* TrackerConfig.update (lines 1361-1365).
TrackerConfig_update(data, other) ==
    LET updated == SetItems(data, other, 1)
    IN [k \in ConfigKeySet |->
          IF updated[k] = "False" THEN "absent" ELSE updated[k]]

\* Tracker._hashable_config (lines 1231-1233): the sorted tuple of the items
\* whose value is not False.
hashable_config(data) ==
    SelectSeq([i \in 1..Len(ConfigKeys) |-> <<ConfigKeys[i], data[ConfigKeys[i]]>>],
              LAMBDA item : item[2] # "absent" /\ item[2] # "False")

\* get_track_kernel_and_data_for_present_config (lines 1255-1263): track_kernel
\* is the sequence of the keys of the kernels built, in the order they were
\* built; the kernel of the present config is built when it has none.
KernelOf(kernels, hash_config) ==
    CHOOSE i \in 1..Len(kernels) : kernels[i] = hash_config
get_track_kernel(tr) ==
    LET hash_config == hashable_config(tr.config)
        kernels == IF \E i \in 1..Len(tr.track_kernel) :
                          tr.track_kernel[i] = hash_config
                   THEN tr.track_kernel
                   ELSE Append(tr.track_kernel, hash_config)
    IN [tracker |-> [tr EXCEPT !.track_kernel = kernels],
        out_kernel |-> KernelOf(kernels, hash_config)]

\* The config of a tracker: item assignments, attribute assignments and
\* update() calls in any order, and the kernel of the present config asked
\* for after any of them (at most MaxKernels kernels are built).
InitConfig ==
    /\ split = SplitStart(<<>>)
    /\ tracker = [config |-> EmptyConfig, track_kernel |-> <<>>]
    /\ particles = <<>> /\ pc = "idle" /\ frame = NoFrame
    /\ sessions = <<>> /\ ret = NoResult /\ trace = <<>> /\ monitor = NoMonitor
    /\ env = [holds_left |-> 0, calls_left |-> 0, first |-> TRUE, turns |-> 0]
    /\ run = NoRun /\ call = NoCall

SetItem ==
    /\ \E idx \in ConfigKeySet, val \in ConfigValues :
         tracker' = [tracker EXCEPT
                       !.config = TrackerConfig_setitem(tracker.config, idx, val)]
    /\ call' = [op |-> "__setitem__", config |-> tracker.config]
    /\ UNCHANGED <<split, particles, pc, frame, sessions, ret, trace, monitor,
                   env, run>>

SetAttr ==
    /\ \E idx \in ConfigKeySet, val \in ConfigValues :
         tracker' = [tracker EXCEPT
                       !.config = TrackerConfig_setattr(tracker.config, idx, val)]
    /\ call' = [op |-> "__setattr__", config |-> tracker.config]
    /\ UNCHANGED <<split, particles, pc, frame, sessions, ret, trace, monitor,
                   env, run>>

Update ==
    /\ \E other \in Dicts :
         tracker' = [tracker EXCEPT
                       !.config = TrackerConfig_update(tracker.config, other)]
    /\ call' = [op |-> "update", config |-> tracker.config]
    /\ UNCHANGED <<split, particles, pc, frame, sessions, ret, trace, monitor,
                   env, run>>

GetKernel ==
    /\ \/ Len(tracker.track_kernel) < MaxKernels
       \/ \E i \in 1..Len(tracker.track_kernel) :
             tracker.track_kernel[i] = hashable_config(tracker.config)
    /\ \E res \in {get_track_kernel(tracker)} :
         /\ tracker' = res.tracker
         /\ call' = [op |-> "get_track_kernel", config |-> tracker.config,
                     out_kernel |-> res.out_kernel]
    /\ UNCHANGED <<split, particles, pc, frame, sessions, ret, trace, monitor,
                   env, run>>

NextConfig ==
    \/ SetItem
    \/ SetAttr
    \/ Update
    \/ GetKernel

SpecConfig == InitConfig /\ [][NextConfig]_vars

\* The partitioner, one element at a time.
SplitInputs ==
    UNION { [1..n -> {Element(c, FALSE) : c \in IsCollAttr}] : n \in 0..MaxSplitLen }

InitSplit ==
    /\ \E elements \in SplitInputs : split = SplitStart(elements)
    /\ tracker = <<>> /\ particles = <<>> /\ pc = "idle" /\ frame = NoFrame
    /\ sessions = <<>> /\ ret = NoResult /\ trace = <<>> /\ monitor = NoMonitor
    /\ env = [holds_left |-> 0, calls_left |-> 0, first |-> TRUE, turns |-> 0]
    /\ run = NoRun /\ call = NoCall

SplitStep ==
    /\ split.pc = "loop" /\ split.idx < Len(split.elements)
    /\ split' = SplitIter(split)
    /\ UNCHANGED <<tracker, particles, pc, frame, sessions, ret, trace, monitor,
                   env, run, call>>

SplitFinish ==
    /\ split.pc = "loop" /\ ~(split.idx < Len(split.elements))
    /\ split' = SplitTail(split)
    /\ UNCHANGED <<tracker, particles, pc, frame, sessions, ret, trace, monitor,
                   env, run, call>>

NextSplit == SplitStep \/ SplitFinish

SpecSplit == InitSplit /\ [][NextSplit]_vars

\* ------------------------------------------------- the run that never holds

\* One step of _track_with_collective when no collective element holds.
StepNoHold(m) ==
    IF m.pc = "turn"
    THEN IF ~(m.frame.tt < m.frame.num_turns) THEN finish(m)
         ELSE IF turn_is_skipped(m.frame) THEN turn_skip(m)
         ELSE turn_begin(m)
    ELSE IF m.pc = "part"
    THEN IF part_is_skipped(m.frame) THEN part_skip(m) ELSE part_call(m, "None")
    ELSE IF m.pc = "part_ret" THEN part_return(m)
    ELSE IF m.pc = "turn_end" THEN turn_end(m)
    ELSE finish(m)

RECURSIVE RunNoHold(_)
RunNoHold(m) == IF m.pc = "idle" THEN m ELSE RunNoHold(StepNoHold(m))

\* The request a on the tracker and the buffer the present run began with,
\* carried through without a hold.
Reference(a) ==
    RunNoHold(track([tracker |-> run.tracker, particles |-> run.particles,
                     pc |-> "idle", frame |-> NoFrame, sessions |-> <<>>,
                     ret |-> NoResult, trace |-> <<>>, monitor |-> NoMonitor],
                    a))

\* The bookkeeping of the particles of a buffer.
Bookkeeping(p) == <<p.state, p.at_turn, p.at_element>>

Alive(p) == { i \in 1..Len(p.state) : p.state[i] > 0 }

ElementsOf(tr) == SelectSeq(tr, LAMBDA x : x.ev = "element")
EndTurnsOf(tr) == SelectSeq(tr, LAMBDA x : x.ev = "end_turn")

\* ------------------------------------------------------------- properties

\* The element indices a part stands for.
PartIndices(pp) ==
    IF pp.iscoll THEN <<pp.elem>>
    ELSE [k \in 1..(pp.ele_stop_in_tracker - pp.ele_start_in_tracker) |->
             pp.ele_start_in_tracker + k - 1]

RECURSIVE Concatenated(_, _)
Concatenated(parts, ii) ==
    IF ii > Len(parts) THEN <<>>
    ELSE PartIndices(parts[ii]) \o Concatenated(parts, ii + 1)

\* C6: the parts built by _split_parts_for_collective_mode, concatenated in
\* order, are the element indices 0..N-1 of the line, in order, each once.
C6_SegmentationFidelity ==
    split.pc = "done" =>
        Concatenated(split.parts, 1)
            = [k \in 1..Len(split.elements) |-> k - 1]

\* A line of bulk, collective, bulk, bulk has been split.
C6_Witness ==
    /\ split.pc = "done" /\ Len(split.elements) = 4 /\ Len(split.parts) = 3
    /\ ~split.parts[1].iscoll /\ split.parts[2].iscoll
    /\ split.parts[3].ele_stop_in_tracker = 4

\* C7: the parts are maximal runs: a collective element is a part of its own,
\* a non-collective part is not empty and holds bulk elements only, no two
\* neighbouring parts are both non-collective; _element_part[i] is the part
\* that contains element i, and _element_index_in_part[i] is None exactly for
\* a collective element and else the offset of i in its part.
C7_MaximalRuns ==
    split.pc = "done" =>
        LET N == Len(split.elements)
            parts == split.parts
        IN /\ Len(split.element_part) = N
           /\ Len(split.element_index_in_part) = N
           /\ \A i \in 0..(N - 1) :
                LET ip == At(split.element_part, i)
                    off == At(split.element_index_in_part, i)
                IN /\ ip \in 0..(Len(parts) - 1)
                   /\ IF check_is_collective(At(split.elements, i))
                      THEN /\ At(parts, ip).iscoll
                           /\ At(parts, ip).elem = i
                           /\ off = None
                      ELSE /\ ~At(parts, ip).iscoll
                           /\ At(parts, ip).ele_start_in_tracker <= i
                           /\ i < At(parts, ip).ele_stop_in_tracker
                           /\ off # None
                           /\ off = i - At(parts, ip).ele_start_in_tracker
           /\ \A ip \in 1..Len(parts) :
                ~parts[ip].iscoll =>
                    /\ parts[ip].ele_stop_in_tracker
                         > parts[ip].ele_start_in_tracker
                    /\ \A i \in parts[ip].ele_start_in_tracker
                                 ..(parts[ip].ele_stop_in_tracker - 1) :
                         /\ i < N
                         /\ ~check_is_collective(At(split.elements, i))
           /\ \A ip \in 1..(Len(parts) - 1) :
                parts[ip].iscoll \/ parts[ip + 1].iscoll

\* A bulk element, then a collective element without the a collective element without the
\* iscollective attribute, then two bulk elements whose offsets start at 0.
C7_Witness ==
    /\ split.pc = "done" /\ Len(split.elements) = 4
    /\ split.element_index_in_part = <<0, None, 0, 1>>
    /\ split.elements[2].iscollective = "absent"

\* C8: without collective elements track(ele_start=s, num_elements=n) on L
\* elements, 0 <= s <= L and n >= 0, completes, covers exactly the n elements
\* s, s+1, ... taken modulo L in that order, ends floor((s+n)/L) turns, and
\* every alive particle's at_turn has advanced by floor((s+n)/L) while its
\* at_element is (s+n) mod L when it stood at s.
C8_NumElementsRange ==
    (/\ run.result \in {"completed", "raised"}
     /\ ~run.tracker.iscollective
     /\ run.args.num_elements # None
     /\ run.args.ele_stop = None /\ run.args.num_turns = None)
    => LET s == IF run.args.ele_start = None THEN 0 ELSE run.args.ele_start
           n == run.args.num_elements
           L == run.tracker.num_elements
       IN /\ run.result = "completed"
          /\ ElementsOf(trace) = [k \in 1..n |-> ElementStep((s + k - 1) % L)]
          /\ Len(EndTurnsOf(trace)) = (s + n) \div L
          /\ \A i \in Alive(particles) :
               /\ particles.at_turn[i]
                    = run.particles.at_turn[i] + ((s + n) \div L)
               /\ run.particles.at_element[i] = s
                    => particles.at_element[i] = (s + n) % L

\* From element 2 of 3, five elements: two turns end, the particle is at 1.
C8_Witness ==
    /\ run.result = "completed" /\ ~run.tracker.iscollective
    /\ run.tracker.num_elements = 3
    /\ run.args = Args(2, None, 5, None, "None")
    /\ run.particles.at_element[1] = 2
    /\ particles.at_turn[1] = run.particles.at_turn[1] + 2
    /\ particles.at_element[1] = 1
    /\ trace = <<ElementStep(2), EndTurn, ElementStep(0), ElementStep(1),
                 ElementStep(2), EndTurn, ElementStep(0)>>

\* The number of elements that (ele_start, ele_stop, num_turns) stands for: a
\* stop at or before the start is reached one turn later.
EquivalentNumElements(N, a) ==
    LET es == IF a.ele_start = None THEN 0 ELSE a.ele_start IN
    IF a.ele_stop <= es THEN a.num_turns * N + a.ele_stop - es
    ELSE (a.num_turns - 1) * N + a.ele_stop - es

\* C9: a completed request (ele_start, ele_stop, num_turns) and the request
\* (ele_start, num_elements) for the same number of elements dispatch the
\* same elements and end-of-turn actions in the same order and leave the
\* same state, at_turn and at_element.
C9_RangeEquivalence ==
    (/\ run.result = "completed"
     /\ run.args.ele_stop # None /\ run.args.num_turns # None
     /\ run.args.num_elements = None)
    => LET ref == Reference(Args(run.args.ele_start, None,
                                 EquivalentNumElements(run.tracker.num_elements,
                                                       run.args),
                                 None, "None"))
       IN /\ ref.ret = Returned("None")
          /\ ref.trace = trace
          /\ Bookkeeping(ref.particles) = Bookkeeping(particles)

\* C10: track(num_turns=t) from element 0 completes; every alive particle's
\* at_turn has advanced by t and its at_element is what it was; over
\* successive such calls at_turn is the sum of the turns asked for.  With
\* and without collective elements.
C10_WholeTurns ==
    (run.result \in {"completed", "raised"} /\ IsWholeTurns(run.args))
    => /\ run.result = "completed"
       /\ \A i \in Alive(particles) :
            /\ particles.at_turn[i]
                 = run.particles.at_turn[i] + run.args.num_turns
            /\ particles.at_element[i] = run.particles.at_element[i]
            /\ env.turns # None => particles.at_turn[i] = env.turns

\* A collective line after track(num_turns=1) and track(num_turns=2).
C10_Witness ==
    /\ run.result = "completed" /\ run.tracker.iscollective
    /\ IsWholeTurns(run.args) /\ run.args.num_turns = 2
    /\ env.turns = 3 /\ env.calls_left = 0
    /\ run.particles.at_turn[1] = 1
    /\ particles.at_turn[1] = 3 /\ particles.at_element[1] = 0

\* A collective element has just signalled hold / the dispatcher acts on it.
HoldSignal ==
    pc = "part" /\ pc' = "part_ret" /\ frame'.returned_by_track = "hold"
HoldReturn ==
    /\ pc = "part_ret" /\ frame.returned_by_track = "hold"
    /\ tracker.enable_pipeline_hold

\* C2: on a tracker that holds, when the step of a collective element at
\* (tt, ipp) signals hold the call returns a Session at once: from the signal
\* to the return the particle buffer (at_element included), the log of
\* dispatched work and the monitor do not change; the new Session records
\* tt, ipp, the buffer, ele_start, ele_stop, num_turns and resumed = FALSE.
C2_HoldReturnsAtOnce ==
    [][ /\ HoldSignal =>
             /\ particles' = particles /\ trace' = trace /\ monitor' = monitor
             /\ frame'.tt = frame.tt /\ frame'.ipp = frame.ipp
        /\ HoldReturn =>
             /\ pc' = "idle"
             /\ ret' = OnHold(Len(sessions) + 1)
             /\ Len(sessions') = Len(sessions) + 1
             /\ SubSeq(sessions', 1, Len(sessions)) = sessions
             /\ Last(sessions').tt = frame.tt
             /\ Last(sessions').ipp = frame.ipp
             /\ Last(sessions').particles
             /\ Last(sessions').ele_start = frame.ele_start
             /\ Last(sessions').ele_stop = frame.ele_stop
             /\ Last(sessions').num_turns = frame.num_turns
             /\ Last(sessions').resumed = FALSE
             /\ particles' = particles /\ trace' = trace /\ monitor' = monitor
      ]_vars

\* track() has returned a Session for a hold in the second turn at part 1.
C2_Witness ==
    /\ pc = "idle" /\ call.op = "track" /\ ret = OnHold(1)
    /\ Len(sessions) = 1 /\ ~sessions[1].resumed
    /\ sessions[1].tt = 1 /\ sessions[1].ipp = 1
    /\ particles.at_turn[1] = 1 /\ particles.at_element[1] = 1

\* resume(session si) is called on tracker `by`.
ResumeCall(by, si) ==
    pc = "idle" /\ call'.op = "resume" /\ call'.by = by /\ call'.session = si

\* The call raises and leaves everything but its result as it was.
Rejected ==
    /\ pc' = "idle" /\ ret'.kind = "raise"
    /\ particles' = particles /\ trace' = trace /\ monitor' = monitor
    /\ sessions' = sessions /\ tracker' = tracker

\* C3: the first resume of a Session sets its resumed flag; every later
\* resume of that Session raises, dispatches nothing and leaves the buffer.
C3_ResumeOnce ==
    [][ \A si \in 1..Len(sessions) :
          ResumeCall("self", si) =>
              IF sessions[si].resumed THEN Rejected
              ELSE /\ sessions'[si].resumed
                   /\ pc' = "turn" /\ particles' = particles
      ]_vars

\* A run held once, resumed and completed; the same Session resumed again.
C3_Witness ==
    /\ pc = "idle" /\ run.result = "completed"
    /\ call = [op |-> "resume", by |-> "self", session |-> 1]
    /\ sessions[1].resumed
    /\ ret = Raised("AssertionError")

\* C4: resume(session) on a tracker that did not create the Session raises
\* before anything is dispatched.
C4_ResumeOtherTracker ==
    [][ \A si \in 1..Len(sessions) : ResumeCall("other", si) => Rejected ]_vars

\* A Session that can still be resumed was given to another tracker.
C4_Witness ==
    /\ pc = "idle" /\ run.result = "held"
    /\ call.op = "resume" /\ call.by = "other"
    /\ ~sessions[call.session].resumed
    /\ ret = Raised("AssertionError")

Resumable == { si \in 1..Len(sessions) : ~sessions[si].resumed }

\* C5: when a resumed run holds again, the new Session has resumed = FALSE,
\* the ele_start, ele_stop and num_turns of the consumed one and a position
\* (tt, ipp) not before the consumed one's; the consumed Session stays
\* resumed; at every moment at most one Session of the run can be resumed.
C5_SessionChain ==
    /\ [](Cardinality(Resumable) <= 1)
    /\ [][ (HoldReturn /\ frame.session_to_resume # None) =>
             LET old == sessions[frame.session_to_resume]
                 new == Last(sessions')
             IN /\ ret' = OnHold(Len(sessions'))
                /\ ~new.resumed
                /\ new.ele_start = old.ele_start
                /\ new.ele_stop = old.ele_stop
                /\ new.num_turns = old.num_turns
                /\ \/ new.tt > old.tt
                   \/ (new.tt = old.tt /\ new.ipp >= old.ipp)
                /\ sessions'[frame.session_to_resume].resumed
                /\ old.resumed
          ]_vars

\* The resumed run has held again, in a later turn.
C5_Witness ==
    /\ pc = "idle" /\ call.op = "resume" /\ ret = OnHold(2)
    /\ Len(sessions) = 2 /\ sessions[1].resumed /\ ~sessions[2].resumed
    /\ sessions[2].tt > sessions[1].tt
    /\ sessions[2].ele_stop = sessions[1].ele_stop /\ sessions[1].ele_stop # None

\* C1: a run that held and was resumed until it ended has completed, has
\* dispatched the elements the run without a hold dispatches, in the same
\* order, and leaves every particle's state, at_turn and at_element as that
\* run does.
C1_HoldResumeEquivalence ==
    (Len(sessions) >= 1 /\ run.result \in {"completed", "raised"})
    => LET ref == Reference(run.args)
       IN /\ run.result = "completed"
          /\ ElementsOf(trace) = ElementsOf(ref.trace)
          /\ Bookkeeping(particles) = Bookkeeping(ref.particles)

\* The request a on tracker tr and buffer p, carried through without a hold.
ReferenceOn(tr, p, a) ==
    RunNoHold(track([tracker |-> tr, particles |-> p,
                     pc |-> "idle", frame |-> NoFrame, sessions |-> <<>>,
                     ret |-> NoResult, trace |-> <<>>, monitor |-> NoMonitor],
                    a))

\* The tracker of the same elements with no element collective.
AllBulk(tr) ==
    Tracker([i \in 1..Len(tr.elements) |->
                Element("False", tr.elements[i].aperture)],
            tr.enable_pipeline_hold, tr.enable_time_dependent_vars)

\* C11: a request that a tracker with collective elements completes, and that
\* the tracker of the same elements without collective flags completes too,
\* dispatches the same elements and end-of-turn actions in the same order on
\* both and leaves the same particles alive with the same at_turn and
\* at_element.
C11_PartitionIndependence ==
    (run.result = "completed" /\ run.tracker.iscollective)
    => LET ref == ReferenceOn(AllBulk(run.tracker), run.particles, run.args)
       IN ref.ret = Returned("None")
          => /\ ref.trace = trace
             /\ Alive(ref.particles) = Alive(particles)
             /\ \A i \in Alive(particles) :
                  /\ ref.particles.at_turn[i] = particles.at_turn[i]
                  /\ ref.particles.at_element[i] = particles.at_element[i]

\* C12: with collective elements track(ele_start=s, num_elements=n), for
\* 0 <= s < num_elements and n >= 0, completes and dispatches exactly the n
\* elements s, s+1, ... taken modulo the length of the line; the element at
\* the stop position is not dispatched.
C12_CollectiveNumElements ==
    (/\ run.result \in {"completed", "raised"}
     /\ run.tracker.iscollective
     /\ run.args.num_elements # None
     /\ run.args.ele_stop = None /\ run.args.num_turns = None
     /\ run.args.ele_start # run.tracker.num_elements)
    => LET s == IF run.args.ele_start = None THEN 0 ELSE run.args.ele_start
           n == run.args.num_elements
           L == run.tracker.num_elements
       IN /\ run.result = "completed"
          /\ ElementsOf(trace) = [k \in 1..n |-> ElementStep((s + k - 1) % L)]

\* The first element of a part, and the element that follows part ipp.
PartFirstElement(pp) == IF pp.iscoll THEN pp.elem ELSE pp.ele_start_in_tracker
FollowingElement(tr, ipp) ==
    IF ipp + 1 < Len(tr.parts) THEN PartFirstElement(At(tr.parts, ipp + 1))
    ELSE tr.num_elements

\* The run began with every alive particle at the start element.
StartsAtElement ==
    /\ run.result = "running"
    /\ \A i \in Alive(run.particles) :
          run.particles.at_element[i]
            = (IF run.args.ele_start = None THEN 0 ELSE run.args.ele_start)

\* A part has been tracked, was not skipped and did not end the tracking.
PartCompleted ==
    /\ pc = "part_ret" /\ frame.returned_by_track = "None"
    /\ ~frame.skip /\ ~frame.stop_tracking

\* C13: in a collective-mode run that began with every alive particle at
\* ele_start, after each part that was neither skipped nor the last one
\* tracked every alive particle's at_element is the index of the first
\* element of the following part (num_elements after the last part), and a
\* collective part has advanced it by exactly one, on the CPU as elsewhere.
C13_AtElementNextPart ==
    [][ (PartCompleted /\ StartsAtElement)
        => \A i \in Alive(particles') :
             /\ particles'.at_element[i] = FollowingElement(tracker, frame.ipp)
             /\ At(tracker.parts, frame.ipp).iscoll
                  => particles'.at_element[i] = particles.at_element[i] + 1 ]_vars

\* A run from a start element past the first one has tracked its last part, a
\* collective one, with the buffer moved to the CPU.
C13_Witness ==
    /\ pc = "turn_end" /\ ~frame.stop_tracking /\ StartsAtElement
    /\ run.args.ele_start # None /\ run.args.ele_start > 0
    /\ Last(tracker.parts).iscoll
    /\ frame.moveback_to_buffer # "None" /\ particles.context = "ContextCpu"
    /\ Alive(particles) # {}
    /\ \A i \in Alive(particles) :
          particles.at_element[i] = tracker.num_elements

\* The start element of the run, as an index.
RunStart == IF run.args.ele_start = None THEN 0 ELSE run.args.ele_start

\* In the log of a run every last element of the lattice is followed at once
\* by the end-of-turn actions.
LastElementThenEndTurn ==
    \A j \in 1..Len(trace) :
        trace[j] = ElementStep(run.tracker.num_elements - 1)
        => (j < Len(trace) /\ trace[j + 1] = EndTurn)

\* The end-of-turn actions come only after the last element of the lattice,
\* or first in a run that starts past the last element.
EndTurnOnlyAfterLastElement ==
    \A j \in 1..Len(trace) :
        trace[j] = EndTurn
        => IF j = 1 THEN RunStart = run.tracker.num_elements
           ELSE trace[j - 1] = ElementStep(run.tracker.num_elements - 1)

NoneLeftAtEnd ==
    \A i \in Alive(particles) : particles.at_element[i] # run.tracker.num_elements

\* C14: in every completed forward track call the end-of-turn actions follow
\* at once each execution of the last lattice element, no alive particle is
\* left at at_element == num_elements, and the end-of-turn actions never run
\* after a turn that stopped before the last element.
C14_EndTurnFollowsLastElement ==
    run.result = "completed"
    => LastElementThenEndTurn /\ NoneLeftAtEnd /\ EndTurnOnlyAfterLastElement

\* A request that starts past the last element and asks for nothing more.
StartsAtEndOfLine ==
    /\ run.result \in {"completed", "raised"}
    /\ run.args.ele_start = run.tracker.num_elements
    /\ run.args.ele_stop = None
    /\ \/ run.args.num_elements = 0 /\ run.args.num_turns = None
       \/ run.args.num_elements = None /\ run.args.num_turns \in {None, 1}

OnlyEndTurn ==
    /\ run.result = "completed"
    /\ trace = <<EndTurn>>
    /\ \A i \in Alive(run.particles) :
          /\ particles.state[i] = run.particles.state[i]
          /\ particles.at_turn[i] = run.particles.at_turn[i] + 1
          /\ particles.at_element[i] = 0

\* C15: a request with ele_start == num_elements is accepted in both dispatch
\* modes and performs only the end-of-turn actions: no element is executed,
\* at_turn of every alive particle grows by one and at_element is reset.
C15_StartAtEndOfLine == StartsAtEndOfLine => OnlyEndTurn

\* C16: track(ele_start, ele_stop=0, num_turns) does what
\* track(ele_start, ele_stop=None, num_turns) does from the same buffer, in
\* both dispatch modes: the same result, the same elements and end-of-turn
\* actions in the same order, the same buffer and monitor records; and a
\* completed run ends with end-of-turn actions, never with a last turn of
\* zero elements.
C16_StopAtZeroIsEndOfLine ==
    (run.result \in {"completed", "raised"} /\ run.args.ele_stop = 0)
    => LET ref == ReferenceOn(run.tracker, run.particles,
                              [run.args EXCEPT !.ele_stop = None])
       IN /\ ref.ret = ret
          /\ ref.trace = trace
          /\ ref.particles = particles
          /\ ref.monitor = monitor
          /\ run.result = "completed" => (trace # <<>> /\ Last(trace) = EndTurn)

\* A tracker with collective elements has completed two turns from a start
\* element past the first one to ele_stop = 0.
C16_Witness ==
    /\ run.result = "completed" /\ run.tracker.iscollective
    /\ run.args.ele_stop = 0 /\ run.args.num_turns = 2
    /\ run.args.ele_start # None /\ run.args.ele_start > 0
    /\ Len(EndTurnsOf(trace)) = 2

\* The request gives num_elements together with ele_stop or num_turns.
ExclusiveArguments(a) ==
    a.num_elements # None /\ (a.ele_stop # None \/ a.num_turns # None)

\* C17: a track call that gives num_elements together with ele_stop, or
\* together with num_turns, raises an error in both dispatch modes, and no
\* element is executed (nor any end-of-turn action).
C17_ExclusiveArgumentsRaise ==
    (run.result # "none" /\ ExclusiveArguments(run.args))
    => run.result = "raised" /\ ret.kind = "raise" /\ trace = <<>>

\* A tracker with collective elements has raised ValueError for num_elements
\* given with num_turns, on a buffer with no stored start element.
C17_Witness ==
    /\ run.result = "raised" /\ run.tracker.iscollective
    /\ run.args.num_elements = 1 /\ run.args.num_turns = 1
    /\ run.args.ele_stop = None
    /\ run.particles.start_tracking_at_element < 0
    /\ ret = Raised("ValueError")

\* The request has arguments that exclude each other or an index outside
\* 0 .. N.
InvalidRange(N, a) ==
    \/ ExclusiveArguments(a)
    \/ a.ele_start # None /\ a.ele_start \notin 0..N
    \/ a.ele_stop # None /\ a.ele_stop \notin 0..N

\* C18: when track() rejects a request for arguments that exclude each other
\* or for an index out of range, the particle buffer (state, at_turn,
\* at_element, start_tracking_at_element, residency) and the tracker are
\* what they were before the call.
C18_InvalidRequestMutatesNothing ==
    (run.result = "raised" /\ InvalidRange(run.tracker.num_elements, run.args))
    => particles = run.particles /\ tracker = run.tracker

\* The line of the run has a collective element or an element without a
\* backward map.
NotFullyReversible ==
    \E i \in 1..Len(run.tracker.elements) :
        \/ check_is_collective(run.tracker.elements[i])
        \/ ~run.tracker.elements[i].backtrackable

\* The call was rejected and changed neither the buffer nor the tracker.
RejectedUnchanged ==
    /\ run.result = "raised" /\ ret.kind = "raise" /\ trace = <<>>
    /\ particles = run.particles /\ tracker = run.tracker

OneTurn(N, a) ==
    /\ a.ele_start \in {None, 0}
    /\ \/ /\ a.num_elements = None /\ a.ele_stop \in {None, 0, N}
          /\ a.num_turns \in {None, 1}
       \/ a.num_elements = N /\ a.ele_stop = None /\ a.num_turns = None

\* One turn with backtrack=True, asked for right after one completed turn
\* forward on a line whose elements are all bulk and reversible.
ForwardThenBack ==
    /\ run.result \in {"completed", "raised"} /\ run.backtrack = "True"
    /\ ~NotFullyReversible
    /\ OneTurn(run.tracker.num_elements, run.args)
    /\ run.previous.result = "completed" /\ run.previous.backtrack = "False"
    /\ OneTurn(run.tracker.num_elements, run.previous.args)

Reversed(seq) == [k \in 1..Len(seq) |-> seq[Len(seq) + 1 - k]]

\* C20: on a fully reversible lattice one turn forward followed by one turn
\* with backtrack=True leaves every alive particle with the state, at_turn
\* and at_element it had before the forward call, and the backward call
\* dispatches the elements of the forward call in the opposite order (so
\* that invertible element maps restore the coordinates).
C20_ReversalRoundTrip ==
    ForwardThenBack
    => /\ run.result = "completed"
       /\ \A i \in Alive(particles) :
            /\ particles.state[i] = run.previous.particles.state[i]
            /\ particles.at_turn[i] = run.previous.particles.at_turn[i]
            /\ particles.at_element[i] = run.previous.particles.at_element[i]
       /\ ElementsOf(trace) = Reversed(ElementsOf(run.previous.trace))
       /\ trace[1] = EndTurnBacktrack

\* A line of at least two elements with an aperture has been tracked one turn
\* forward, where it lost a particle, and one turn back: the other particle is
\* back at turn 0, element 0.
C20_Witness ==
    /\ ForwardThenBack /\ run.result = "completed"
    /\ run.tracker.num_elements >= 2
    /\ run.particles.at_turn[1] = 1
    /\ particles.at_turn[1] = 0 /\ particles.at_element[1] = 0
    /\ Alive(particles) # {} /\ Alive(particles) # Alive(run.previous.particles)

\* A call with backtrack=True made right after a completed forward call with
\* the same range arguments, on a line whose elements are all bulk and
\* reversible, the buffer standing at the start element before the forward
\* call.
SameRangeBack ==
    /\ run.result \in {"completed", "raised"} /\ run.backtrack = "True"
    /\ ~NotFullyReversible
    /\ run.previous.result = "completed" /\ run.previous.backtrack = "False"
    /\ run.args = run.previous.args
    /\ \A i \in Alive(run.previous.particles) :
          run.previous.particles.at_element[i]
            = (IF run.args.ele_start = None THEN 0 ELSE run.args.ele_start)

\* C21: for every range request the elements dispatched with backtrack=True
\* are those of the forward call with the same arguments in the opposite
\* order, and forward followed by backtrack over the same range gives every
\* alive particle its at_turn and at_element back.
C21_BacktrackReversesRange ==
    SameRangeBack
    => /\ run.result = "completed"
       /\ ElementsOf(trace) = Reversed(ElementsOf(run.previous.trace))
       /\ \A i \in Alive(particles) :
            /\ particles.at_turn[i] = run.previous.particles.at_turn[i]
            /\ particles.at_element[i] = run.previous.particles.at_element[i]

\* The step of a collective element has returned a status object that is not
\* on hold, and the dispatcher is about to act on it.
StatusReturned ==
    pc = "part_ret" /\ frame.returned_by_track = "status"

\* C22: the dispatcher distinguishes only completed and held.  When the step
\* of a collective element returns a status object that is not on hold, the
\* dispatcher goes on exactly as after a step that returned nothing (the
\* marker, then the next part or the end of the turn), and a call returns a
\* held Session only when a step signalled hold.
C22_OnlyCompletedAndHeld ==
    [][ /\ StatusReturned
            => Becomes(part_return([M EXCEPT !.frame.returned_by_track = "None"]))
        /\ (pc' = "idle" /\ ret'.session # None /\ ret' # ret)
            => (pc = "part_ret" /\ frame.returned_by_track = "hold") ]_vars

\* C23: buffer residency is bracketed.  Whenever a run (track(), with any
\* resume() calls that continue it) returns a completion, the particle buffer
\* is on the context it was on when track() was called, for every range,
\* runs that end at a stop element included.
C23_ResidencyBracketed ==
    run.result = "completed" => particles.context = run.particles.context

\* The dispatcher acts on a hold signalled while the buffer is moved out to
\* the CPU / the resumed call has reached the saved part.
HoldOnCpu == HoldReturn /\ frame.moveback_to_buffer # "None"
AtSavedPart ==
    /\ pc = "part" /\ frame.ipp_resume # None /\ frame.ipp = frame.ipp_resume

\* The run was held with the buffer moved out, and the Session was resumed.
ResumedFromCpu ==
    \E si \in 1..Len(sessions) :
        sessions[si].resumed /\ sessions[si].moveback_to_buffer # "None"

\* C24: when a hold occurs while the buffer is moved out to the CPU, the new
\* Session records the pending move-back target and the pending unhide of the
\* lost particles; the resumed call restores both at the saved part and does
\* not prepare the buffer a second time (its residency and the hidden status
\* of the lost particles are untouched on the way to the element); and when
\* the resumed run completes the buffer has been moved back.
C24_HoldOnCpuMovesBack ==
    [][ /\ HoldOnCpu =>
             /\ Len(sessions') = Len(sessions) + 1
             /\ Last(sessions').moveback_to_buffer = frame.moveback_to_buffer
             /\ Last(sessions').need_unhide_lost_particles
                   = frame.need_unhide_lost_particles
        /\ (AtSavedPart /\ pc' = "part_ret") =>
             /\ frame'.moveback_to_buffer
                   = sessions[frame.session_to_resume].moveback_to_buffer
             /\ frame'.need_unhide_lost_particles
                   = sessions[frame.session_to_resume].need_unhide_lost_particles
             /\ particles'.context = particles.context
             /\ particles'.lost_particles_are_hidden
                   = particles.lost_particles_are_hidden
        /\ (ResumedFromCpu' /\ run'.result = "completed") =>
             particles'.context = run.particles.context ]_vars

\* C25: the parts before the start element are skipped on the first turn
\* without any effect on the buffer.  After track() with ele_start > 0 has
\* returned a completion, the buffer is on the context it was on before the
\* call and its lost particles are hidden or visible as they were, whatever
\* needs_cpu or needs_hidden_lost_particles the skipped parts declare.
C25_SkippedPartsNoSideEffect ==
    (call.op = "track" /\ run.result = "completed" /\ run.args.ele_start > 0)
    => /\ particles.context = run.particles.context
       /\ particles.lost_particles_are_hidden
            = run.particles.lost_particles_are_hidden

\* A completed run with a coarse monitor created for it, on a buffer whose
\* alive particles stood at the start element.
CoarseRun ==
    /\ run.result = "completed" /\ run.args.turn_by_turn_monitor = "True"
    /\ \A i \in Alive(run.particles) :
          run.particles.at_element[i]
            = (IF run.args.ele_start = None THEN 0 ELSE run.args.ele_start)

\* Every record of data was taken with the alive particles at element 0, and
\* no two records of a particle in the same turn.
SampledBeforeElementZero(data) ==
    \A k \in 1..Len(data) : \A i \in 1..NumParticles :
        data[k][i] # <<>>
        => /\ data[k][i][2] = 0
           /\ \A j \in 1..(k - 1) :
                 data[j][i] # <<>> => data[j][i][1] < data[k][i][1]

\* C26: coarse monitoring.  The recorder is called once per turn, each time
\* before element 0 of the turn (the alive particles are at at_element 0),
\* for every ele_start; a tracker with collective elements takes the same
\* records as the tracker of the same elements without any; and the monitor
\* created for the run has exactly one turn slot for each record taken.
C26_CoarseMonitoring ==
    CoarseRun
    => /\ SampledBeforeElementZero(monitor.data)
       /\ monitor.data
            = ReferenceOn(AllBulk(run.tracker), run.particles, run.args).monitor.data
       /\ ~monitor.overflow /\ monitor.stop_at_turn = Len(monitor.data)

\* C27: a monitor constructed with start_at_turn, stop_at_turn and
\* num_particles allocates (stop_at_turn - start_at_turn) * num_particles
\* records for each per-particle variable.
C27_MonitorAllocation ==
    (call.op = "_monitor_init" /\ monitor # NoMonitor)
    => monitor.n_records
         = (call.stop_at_turn - call.start_at_turn) * call.num_particles

\* The number of records the present request asks of a coarse monitor: the
\* records it takes with a monitor created for the run.
RecordsAsked ==
    Len(ReferenceOn(run.tracker, run.particles,
                    [run.args EXCEPT !.turn_by_turn_monitor = "True"]).monitor.data)

\* A finished run with a coarse monitor object of the caller, every particle
\* alive throughout.
MonitorObjectRun ==
    /\ run.result \in {"completed", "raised"}
    /\ run.args.turn_by_turn_monitor \in {"Monitor1", "Monitor2"}
    /\ Alive(particles) = 1..NumParticles

\* C28: monitor capacity.  No run asks a monitor for a record it has no slot
\* for without being refused with an error, and nothing is written past the
\* last slot; a run with a monitor object of the caller that asks for more
\* records than the window has slots raises, one that asks for exactly as
\* many completes and fills every slot once.
C28_MonitorCapacity ==
    /\ monitor.overflow => run.result = "raised"
    /\ monitor.stop_at_turn # None => Len(monitor.data) <= monitor.stop_at_turn
    /\ MonitorObjectRun =>
          /\ RecordsAsked > monitor.stop_at_turn => run.result = "raised"
          /\ RecordsAsked = monitor.stop_at_turn =>
                /\ run.result = "completed"
                /\ Len(monitor.data) = monitor.stop_at_turn
                /\ \A k \in 1..Len(monitor.data) : \A i \in 1..NumParticles :
                      monitor.data[k][i] # <<>>

\* The work of a single sweep of one turn: nothing is dispatched after the
\* end-of-turn actions.
SingleTurnSweep(tr) ==
    \A k \in 1..(Len(tr) - 1) : tr[k].ev # "end_turn"

\* C29: element-by-element monitoring runs only in a single sweep of one turn
\* without collective parts.  No call in collective mode runs with
\* flag_monitor = 2, whether asked for as 'ONE_TURN_EBE' or through a monitor
\* object with ebe_mode = 1, and no completed run with an element-by-element
\* monitor has gone beyond one turn.
C29_EbeOnlySingleTurnBulk ==
    /\ pc # "idle" => frame.flag_monitor # 2
    /\ (run.result = "completed" /\ monitor.ebe_mode = 1)
         => ~run.tracker.iscollective /\ SingleTurnSweep(trace)

\* The head of a turn has run the time gate / the time of that turn.
GateStep ==
    /\ pc = "turn" /\ pc' = "part" /\ tracker.enable_time_dependent_vars
TurnTime ==
    At(particles.at_turn, FirstActiveFrom(particles.state, 1))
      + tracker.t0_time_dependent_vars

\* C30: the time gate.  With time-dependent variables enabled, at the head of
\* each turn, before any part is dispatched, t_turn_s and the time of the last
\* refresh are set to the time of the turn if and only if there was no
\* refresh yet, or no minimum interval is configured, or the time since the
\* last refresh is at least the interval (exactly one interval is enough);
\* otherwise, and in every other step of a run, both stay as they are.
C30_TimeGate ==
    [][ IF GateStep
        THEN IF \/ tracker.t_last_update_time_dependent_vars = None
                \/ tracker.dt_update_time_dependent_vars = None
                \/ TurnTime - tracker.t_last_update_time_dependent_vars
                     >= tracker.dt_update_time_dependent_vars
             THEN /\ tracker'.t_turn_s = TurnTime
                  /\ tracker'.t_last_update_time_dependent_vars = TurnTime
             ELSE /\ tracker'.t_turn_s = tracker.t_turn_s
                  /\ tracker'.t_last_update_time_dependent_vars
                       = tracker.t_last_update_time_dependent_vars
        ELSE /\ tracker'.t_turn_s = tracker.t_turn_s
             /\ tracker'.t_last_update_time_dependent_vars
                  = tracker.t_last_update_time_dependent_vars ]_vars

\* C35: resume with the time gate.  On a line with time-dependent variables,
\* a run that held and was resumed has ended without error and leaves the
\* t_turn_s, the time of the last refresh and the particles' state, at_turn
\* and at_element that the run without a hold leaves.
C35_ResumeWithTimeGate ==
    (/\ run.result \in {"completed", "raised"}
     /\ run.tracker.enable_time_dependent_vars
     /\ call.op = "resume")
    => LET ref == Reference(run.args)
       IN /\ run.result = "completed"
          /\ tracker.t_turn_s = ref.tracker.t_turn_s
          /\ tracker.t_last_update_time_dependent_vars
               = ref.tracker.t_last_update_time_dependent_vars
          /\ Bookkeeping(particles) = Bookkeeping(ref.particles)

C37_HoldRequiresOptIn ==
    /\ [](pc # "unbuilt" => (tracker.enable_pipeline_hold => tracker.iscollective))
    /\ [][ /\ (/\ pc = "unbuilt" /\ call'.op = "__init__"
               /\ call'.enable_pipeline_hold /\ ~HasCollective(call'.elements))
              => (pc' = "unbuilt" /\ tracker' = tracker /\ ret'.kind = "raise")
           /\ (/\ pc = "idle" /\ call'.op = "enable_pipeline_hold"
               /\ ~tracker.iscollective)
              => (tracker' = tracker /\ ret'.kind = "raise")
           /\ (/\ pc = "part_ret" /\ frame.returned_by_track = "hold"
               /\ ~tracker.enable_pipeline_hold)
              => /\ pc' = "idle" /\ ret' = Raised("AssertionError")
                 /\ sessions' = sessions
       ]_vars

\* A collective element signalled hold on a tracker that was built without
\* enable_pipeline_hold: the call raised, there is no Session.
C37_Witness ==
    /\ pc = "idle" /\ run.result = "raised" /\ ret = Raised("AssertionError")
    /\ ~tracker.enable_pipeline_hold /\ tracker.iscollective
    /\ env.holds_left = 0 /\ sessions = <<>>

\* The run has ended on a buffer that held a start position.
StartFromBuffer ==
    /\ run.result \in {"completed", "raised"}
    /\ run.particles.start_tracking_at_element >= 0

\* C39: a start position stored in the buffer.  When the buffer's
\* start_tracking_at_element is >= 0 and the caller passes no ele_start (or
\* ele_start = 0), the call does what the call with ele_start set to that
\* index does on the buffer without the field (same result, same dispatched
\* work, same state, at_turn and at_element) and leaves the field at -1; when
\* the caller passes another ele_start the call raises ValueError.
C39_StartStoredInBuffer ==
    StartFromBuffer =>
       LET a == run.args
           at == run.particles.start_tracking_at_element
           ref == ReferenceOn(run.tracker,
                              [run.particles EXCEPT
                                  !.start_tracking_at_element = -1],
                              [a EXCEPT !.ele_start = at])
       IN IF a.ele_start \in {None, 0}
          THEN /\ ret = ref.ret
               /\ trace = ref.trace
               /\ Bookkeeping(particles) = Bookkeeping(ref.particles)
               /\ particles.start_tracking_at_element = -1
          ELSE ret = Raised("ValueError")

\* The items of a config that are not flags set to False.
SetFlags(data) == { k \in ConfigKeySet : data[k] \notin {"absent", "False"} }
SameSetFlags(c1, c2) ==
    /\ SetFlags(c1) = SetFlags(c2)
    /\ \A k \in SetFlags(c1) : c1[k] = c2[k]

\* Configs that differ only in flags set to False have the same key, and the
\* kernel selected for the present config is the one built for that key.
SameKernelForSameFlags ==
    /\ \A other \in Dicts :
          SameSetFlags(tracker.config, other)
          => hashable_config(other) = hashable_config(tracker.config)
    /\ call.op = "get_track_kernel"
         => \A other \in Dicts :
               SameSetFlags(call.config, other)
               => get_track_kernel([tracker EXCEPT !.config = other]).out_kernel
                    = call.out_kernel

\* C40: after any sequence of item assignments, attribute assignments and
\* update() calls no key of the config maps to False; two configs that differ
\* only in flags set to False have the same _hashable_config and select the
\* same cached kernel.
C40_ConfigStoresNoFalse ==
    /\ \A k \in ConfigKeySet : tracker.config[k] # "False"
    /\ SameKernelForSameFlags

\* The element with the aperture, and the particles lost by the present step.
ApertureOf(tr) ==
    CHOOSE k \in 0..(tr.num_elements - 1) : At(tr.elements, k).aperture
LostNow == { i \in Alive(particles) : particles'.state[i] <= 0 }

\* The present step belongs to a run that began with every alive particle at
\* its start element.
RunStartsAtElement ==
    /\ run'.result # "none"
    /\ \A i \in Alive(run'.particles) :
          run'.particles.at_element[i]
            = (IF run'.args.ele_start = None THEN 0 ELSE run'.args.ele_start)

\* C38: a particle whose state is not positive keeps its state, at_element and
\* at_turn in every later step of the call and of the calls that follow; a
\* particle lost by a step of a run that began at the particles' element is
\* left at the index of the element where it was lost, in the turn it had
\* reached there.
C38_LostParticleFrozen ==
    [][ /\ \A i \in (1..NumParticles) \ Alive(particles) :
             /\ particles'.state[i] = particles.state[i]
             /\ particles'.at_element[i] = particles.at_element[i]
             /\ particles'.at_turn[i] = particles.at_turn[i]
        /\ RunStartsAtElement
             => \A i \in LostNow :
                  /\ particles'.at_element[i] = ApertureOf(tracker)
                  /\ particles'.at_turn[i]
                       = particles.at_turn[i]
                           + (IF ApertureOf(tracker) >= particles.at_element[i]
                              THEN 0 ELSE 1) ]_vars

\* A second call has completed on a buffer whose last particle was lost at an
\* element past the first one, in a turn before the one the others reached.
C38_Witness ==
    /\ run.result = "completed" /\ env.calls_left = 0
    /\ Alive(particles) = 1..(NumParticles - 1)
    /\ particles.at_element[NumParticles] = ApertureOf(tracker)
    /\ ApertureOf(tracker) > 0
    /\ particles.at_turn[NumParticles] < particles.at_turn[1]
    /\ run.particles.state[NumParticles] <= 0

\* The head of a turn of a run with time-dependent variables, and the first
\* alive particle of the buffer.
TurnHead ==
    /\ pc = "turn" /\ frame.tt < frame.num_turns /\ ~turn_is_skipped(frame)
    /\ tracker.enable_time_dependent_vars
FirstAlive == CHOOSE i \in Alive(particles) : \A j \in Alive(particles) : i <= j

\* C31: early termination.  With time-dependent variables, a turn that begins
\* with no alive particle ends the run: no part and no end-of-turn action is
\* dispatched in that turn or later, nothing changes and the call returns a
\* completion.  A turn that begins with an alive particle goes on to its
\* parts, and a refresh of the gate takes the at_turn of the first alive
\* particle (it does refresh when there was none yet or no interval is set).
C31_EarlyTermination ==
    [][ /\ (TurnHead /\ Alive(particles) = {})
           => /\ pc' = "finish"
              /\ UNCHANGED <<trace, particles, tracker>>
        /\ (pc = "finish" /\ tracker.enable_time_dependent_vars)
           => /\ pc' = "idle" /\ ret' = Returned("None")
              /\ run'.result = "completed"
              /\ UNCHANGED <<trace, particles, tracker>>
        /\ (TurnHead /\ Alive(particles) # {})
           => /\ pc' = "part"
              /\ tracker'.t_turn_s # tracker.t_turn_s
                   => tracker'.t_turn_s
                        = particles.at_turn[FirstAlive]
                            + tracker.t0_time_dependent_vars
              /\ (\/ tracker.t_last_update_time_dependent_vars = None
                  \/ tracker.dt_update_time_dependent_vars = None)
                   => tracker'.t_turn_s
                        = particles.at_turn[FirstAlive]
                            + tracker.t0_time_dependent_vars ]_vars

\* A run of whole turns has completed before its last turn: every particle it
\* began with alive was lost, and fewer end-of-turn actions ran than turns
\* were asked for.
C31_Witness ==
    /\ run.result = "completed" /\ pc = "idle"
    /\ tracker.enable_time_dependent_vars
    /\ Alive(run.particles) = 1..NumParticles /\ Alive(particles) = {}
    /\ run.args.ele_stop = None /\ run.args.num_turns # None
    /\ Len(EndTurnsOf(trace)) < run.args.num_turns

\* A turn has begun with the first slot lost and a later particle alive, in a
\* turn that the lost one never reached: the gate has taken the turn of the
\* alive one.
C31_WitnessFirstAlive ==
    /\ pc = "part" /\ tracker.enable_time_dependent_vars
    /\ particles.state[1] <= 0 /\ Alive(particles) # {}
    /\ particles.at_turn[FirstAlive] > particles.at_turn[1]
    /\ tracker.t_turn_s = particles.at_turn[FirstAlive]

\* C32: on a tracker of a CPU context, a fresh track call on a buffer whose
\* count of active or of lost particles is negative raises an error (ValueError
\* with collective elements, AssertionError without), dispatches nothing and
\* leaves the buffer, the start element stored in it included, as it was.
C32_CountsRequiredOnCpu ==
    [][ (/\ pc = "idle" /\ run.result = "none" /\ run'.result # "none"
         /\ call'.op = "track"
         /\ tracker.context = "ContextCpu"
         /\ \/ particles.num_active_particles < 0
            \/ particles.num_lost_particles < 0)
        => /\ pc' = "idle"
           /\ ret' = Raised(IF tracker.iscollective THEN "ValueError"
                            ELSE "AssertionError")
           /\ trace' = <<>>
           /\ particles' = particles ]_vars

\* A call on a CPU tracker has been rejected for a buffer with a start element
\* stored in it and only the count of lost particles not computed.
C32_Witness ==
    /\ run.result = "raised" /\ call.op = "track"
    /\ tracker.context = "ContextCpu"
    /\ particles.num_active_particles >= 0 /\ particles.num_lost_particles < 0
    /\ particles.start_tracking_at_element = 0
    /\ trace = <<>> /\ particles = run.particles

\* On another context the same buffer is tracked, and a buffer that was moved
\* to the CPU and back has its counts marked as not computed again.
CountsNotRequiredElsewhere ==
    /\ run.result = "completed" /\ tracker.context = "ContextCupy"
    /\ run.particles.num_active_particles < 0 /\ trace # <<>>
    /\ \E i \in 1..Len(tracker.elements) : tracker.elements[i].needs_cpu
    /\ particles.num_active_particles < 0

\* A monitored run that held at least once has ended.
HeldRunEnded ==
    /\ Len(sessions) >= 1 /\ run.result \in {"completed", "raised"}
    /\ run.args.turn_by_turn_monitor # "None"

\* No particle has two records of data in the same turn.
NoTurnTwice(data) ==
    \A k \in 1..Len(data) : \A j \in 1..(k - 1) : \A i \in 1..NumParticles :
        (data[k][i] # <<>> /\ data[j][i] # <<>>) => data[j][i][1] < data[k][i][1]

C33_Termination ==
    /\ (run.result = "running") ~> (run.result \in {"completed", "held"})
    /\ (run.result # "none") ~> (run.result = "completed")

\* The same on the lines without time-dependent variables.
TerminationWithoutTimeGate ==
    /\ (~tracker.enable_time_dependent_vars /\ run.result = "running")
         ~> (run.result \in {"completed", "held"})
    /\ (~tracker.enable_time_dependent_vars /\ run.result # "none")
         ~> (run.result = "completed")

====
